---- MODULE Spec2Model ----
(***************************************************************************)
(* In-building DEX of the Taurion GSP: ledger (available / reserved coin   *)
(* and per-building item inventories), per (building, item) order books,   *)
(* the matching engine, the trade history and the per-block undo frames    *)
(* that make a block invertible on a chain reorganisation.                 *)
(*                                                                         *)
(* The daemon itself is exercised by src/gametest/dex.py; the values of    *)
(* Init and of the moves below are the ones that test uses.                *)
(***************************************************************************)
EXTENDS Integers, Sequences, FiniteSets, TLC

\* ------------------------------------------------------------------------
\* Bounds of the model.
MaxSteps == 3         \* commands sent plus reorganisations in one behaviour
MaxHeight == 2        \* blocks on top of the fork point of dex.py
MaxBlockCmds == 2     \* commands confirmed in one block
MaxMoves == 2         \* configuration moves sent in one behaviour
MaxTip == 12          \* blocks generated while configurations are scheduled

\* ------------------------------------------------------------------------
\* Program constants.
Ancient == 1001       \* the ownerless "ancient" building
Checkmark == 1002     \* the building built for and owned by "building"
BpsDenominator == 10000
InitialCoins == 1000
InitialFoo == 10
InitialBar == 20

NoOwner == "none"
Accounts == {"buyer", "seller", "building", "gifted"}
Traders == {"buyer", "seller"}
Buildings == {Ancient, Checkmark}
Items == {"foo", "bar"}
FeeValues == {0, 1000}
LowFee == 25          \* the fee of 0.25 percent of buildings_config.py

owner == [b \in Buildings |-> IF b = Checkmark THEN "building" ELSE NoOwner]

VARIABLES
  coin,      \* coin[a] = [available, reserved, total]
  inv,       \* inv[<<b, a, i>>] = [available, reserved]
  book,      \* book[<<b, i>>] = [bids, asks], each a sorted sequence of orders
  nextId,    \* the id the next created order receives
  trades,    \* the trade history, oldest first
  dexfee,    \* dexfee[b]: the effective fee of building b, in basis points
  log,       \* the open undo frame: inverse operations of the current block
  inBlock,   \* TRUE while a block is being applied
  cmds,      \* the commands applied so far in the current block
  chain,     \* the committed blocks above the fork point, oldest first
  stale,     \* the blocks detached by invalidateblock, oldest first
  pre,       \* the state when the current block started
  altLen,    \* number of blocks of chain that belong to the alternate branch
  altSeen,   \* TRUE iff an alternate block changed the state since the detach
  orig,      \* state captured when the first block was detached
  reorgDone, \* "none", or how the detached branch was re-attached last
  nsteps,    \* number of commands sent and of reorganisations so far
  tip,       \* buildings_config.py: the height of the last block
  pending,   \* the configuration moves sent and not yet confirmed
  sched,     \* the scheduled configuration updates, oldest first
  config,    \* config[b]: the configuration of building b that is in force
  confirmed  \* the configuration moves confirmed, with their heights

cfgVars == <<tip, pending, sched, config, confirmed>>

vars == <<coin, inv, book, nextId, trades, dexfee, log, inBlock, cmds,
          chain, stale, pre, altLen, altSeen, orig, reorgDone, nsteps,
          tip, pending, sched, config, confirmed>>

Min(x, y) == IF x < y THEN x ELSE y

\* The game state together with the open undo frame, as one value on which
\* the operations below work.
St == [coin |-> coin, inv |-> inv, book |-> book, nextId |-> nextId,
       trades |-> trades, dexfee |-> dexfee, log |-> log]

\* What getGameState and gettradehistory report.
View(S) == [coin |-> S.coin, inv |-> S.inv, book |-> S.book,
            nextId |-> S.nextId, trades |-> S.trades, dexfee |-> S.dexfee]

State == View(St)

\* ------------------------------------------------------------------------
\* Ledger.  Every mutation appends its inverse to the undo frame.

\* Moves d coin from available to reserved (d < 0: back).
ReserveCoin(S, a, d) ==
  [S EXCEPT !.coin[a].available = @ - d, !.coin[a].reserved = @ + d,
            !.log = Append(@, [op |-> "reserveCoin", a |-> a, d |-> 0 - d])]

\* Credits d coin to the available balance.
CreditCoin(S, a, d) ==
  [S EXCEPT !.coin[a].available = @ + d, !.coin[a].total = @ + d,
            !.log = Append(@, [op |-> "creditCoin", a |-> a, d |-> 0 - d])]

\* Debits d coin from the reserved balance.
DebitReservedCoin(S, a, d) ==
  [S EXCEPT !.coin[a].reserved = @ - d, !.coin[a].total = @ - d,
            !.log = Append(@, [op |-> "debitReservedCoin", a |-> a, d |-> 0 - d])]

ReserveItem(S, b, a, i, d) ==
  [S EXCEPT !.inv[<<b, a, i>>].available = @ - d,
            !.inv[<<b, a, i>>].reserved = @ + d,
            !.log = Append(@, [op |-> "reserveItem", b |-> b, a |-> a,
                               i |-> i, d |-> 0 - d])]

CreditItem(S, b, a, i, d) ==
  [S EXCEPT !.inv[<<b, a, i>>].available = @ + d,
            !.log = Append(@, [op |-> "creditItem", b |-> b, a |-> a,
                               i |-> i, d |-> 0 - d])]

DebitReservedItem(S, b, a, i, d) ==
  [S EXCEPT !.inv[<<b, a, i>>].reserved = @ - d,
            !.log = Append(@, [op |-> "debitReservedItem", b |-> b, a |-> a,
                               i |-> i, d |-> 0 - d])]

\* ------------------------------------------------------------------------
\* Order book.

\* Before with the bids compared like the asks.
Before_AscendingBids(side, x, y) ==
  IF x.price # y.price THEN x.price < y.price ELSE x.id < y.id

\* TRUE iff order x comes before order y on the given side.
Before(side, x, y) ==
  IF x.price # y.price
    THEN (IF side = "ask" THEN x.price < y.price ELSE x.price > y.price)
    ELSE x.id < y.id

\* Insert that puts the order behind all others.
Insert_AtEnd(side, s, o) == Append(s, o)

RECURSIVE Insert(_, _, _)
Insert(side, s, o) ==
  IF s = <<>> THEN <<o>>
  ELSE IF Before(side, o, Head(s)) THEN <<o>> \o s
  ELSE <<Head(s)>> \o Insert(side, Tail(s), o)

Remove(s, id) == SelectSeq(s, LAMBDA x : x.id # id)

SetQuantity(s, id, q) ==
  [k \in 1..Len(s) |-> IF s[k].id = id THEN [s[k] EXCEPT !.quantity = q]
                       ELSE s[k]]

Side(S, b, i, side) ==
  IF side = "ask" THEN S.book[<<b, i>>].asks ELSE S.book[<<b, i>>].bids

WithSide(S, b, i, side, s) ==
  IF side = "ask" THEN [S EXCEPT !.book[<<b, i>>].asks = s]
  ELSE [S EXCEPT !.book[<<b, i>>].bids = s]

InsertOrder(S, o) ==
  [WithSide(S, o.building, o.item, o.side,
            Insert(o.side, Side(S, o.building, o.item, o.side), o))
     EXCEPT !.log = Append(@, [op |-> "insert", o |-> o])]

RemoveOrder(S, o) ==
  [WithSide(S, o.building, o.item, o.side,
            Remove(Side(S, o.building, o.item, o.side), o.id))
     EXCEPT !.log = Append(@, [op |-> "remove", o |-> o])]

ReduceOrder(S, o, q) ==
  [WithSide(S, o.building, o.item, o.side,
            SetQuantity(Side(S, o.building, o.item, o.side), o.id, q))
     EXCEPT !.log = Append(@, [op |-> "reduce", o |-> o])]

\* The set of all open orders.
RECURSIVE SeqToSet(_)
SeqToSet(s) == IF s = <<>> THEN {} ELSE {Head(s)} \cup SeqToSet(Tail(s))

OpenOrders(S) ==
  UNION {SeqToSet(S.book[k].bids) \cup SeqToSet(S.book[k].asks) :
         k \in Buildings \X Items}

\* ------------------------------------------------------------------------
\* Trade history.

\* Trade with the incoming and the resting account in each other's place.
Trade_Swapped(ctx, b, i, price, f, seller, buyer) ==
  [height |-> ctx.height, timestamp |-> ctx.time, buildingid |-> b,
   item |-> i, price |-> price, quantity |-> f, cost |-> price * f,
   seller |-> buyer, buyer |-> seller]

Trade(ctx, b, i, price, f, seller, buyer) ==
  [height |-> ctx.height, timestamp |-> ctx.time, buildingid |-> b,
   item |-> i, price |-> price, quantity |-> f, cost |-> price * f,
   seller |-> seller, buyer |-> buyer]

\* AppendTrade that puts the record in front of the history.
AppendTrade_Front(S, t) ==
  [S EXCEPT !.trades = <<t>> \o @,
            !.log = Append(@, [op |-> "trade"])]

\* AppendTrade without the inverse operation in the undo frame.
AppendTrade_NoUndo(S, t) == [S EXCEPT !.trades = Append(@, t)]

AppendTrade(S, t) ==
  [S EXCEPT !.trades = Append(@, t),
            !.log = Append(@, [op |-> "trade"])]

\* ------------------------------------------------------------------------
\* Settlement of one fill.

\* Fee with the fee value taken as a multiple of 0.1 percent.
Fee_PerMille(cost, bps) == (cost * bps) \div 1000

\* Fee rounded up.
Fee_RoundUp(cost, bps) ==
  (cost * bps + BpsDenominator - 1) \div BpsDenominator

\* The fee credited to the owner of the building for a trade of this cost.
Fee(cost, bps) == (cost * bps) \div BpsDenominator

\* SellerCredit with the fee taken from the proceeds once.
SellerCredit_Once(cost, fee) == cost - fee

\* What the seller receives: the fee is taken from the proceeds twice, once
\* for the owner of the building and once more without a recipient
\* (dex.py: building 21, seller 210 - 2 * 21).
SellerCredit(cost, fee) == cost - 2 * fee

\* Settle that pays the seller and leaves the buyer the coin.
Settle_KeepCoin(S, seller, buyer, b, i, f, price) ==
  LET cost == price * f
      fee == Fee(cost, S.dexfee[b])
      S1 == DebitReservedItem(S, b, seller, i, f)
      S2 == CreditItem(S1, b, buyer, i, f)
      S3 == ReserveCoin(S2, buyer, 0 - cost)
      S4 == CreditCoin(S3, seller, SellerCredit(cost, fee))
  IN IF owner[b] # NoOwner THEN CreditCoin(S4, owner[b], fee) ELSE S4

\* Settle that gives the buyer the items and leaves them with the seller.
Settle_KeepItems(S, seller, buyer, b, i, f, price) ==
  LET cost == price * f
      fee == Fee(cost, S.dexfee[b])
      S2 == CreditItem(S, b, buyer, i, f)
      S3 == DebitReservedCoin(S2, buyer, cost)
      S4 == CreditCoin(S3, seller, SellerCredit(cost, fee))
  IN IF owner[b] # NoOwner THEN CreditCoin(S4, owner[b], fee) ELSE S4

Settle(S, seller, buyer, b, i, f, price) ==
  LET cost == price * f
      fee == Fee(cost, S.dexfee[b])
      S1 == DebitReservedItem(S, b, seller, i, f)
      S2 == CreditItem(S1, b, buyer, i, f)
      S3 == DebitReservedCoin(S2, buyer, cost)
      S4 == CreditCoin(S3, seller, SellerCredit(cost, fee))
  IN IF owner[b] # NoOwner THEN CreditCoin(S4, owner[b], fee) ELSE S4

\* ------------------------------------------------------------------------
\* Matching engine.

Opp(side) == IF side = "bid" THEN "ask" ELSE "bid"

\* TRUE iff the resting order M can be matched by an incoming order of the
\* given side and limit price.
Crosses(side, p, M) == IF side = "bid" THEN M.price <= p ELSE M.price >= p

\* ExecutionPrice with the limit of the incoming order.
ExecutionPrice_Taker(o, M) == o.price

\* The price at which an incoming order o trades with the resting order M.
ExecutionPrice(o, M) == M.price

\* Fill that puts what is left of the resting order into the book as a
\* new order.
Fill_Requeue(S, M, f) ==
  IF f = M.quantity THEN RemoveOrder(S, M)
  ELSE LET S1 == InsertOrder(RemoveOrder(S, M),
                             [M EXCEPT !.id = S.nextId,
                                       !.quantity = M.quantity - f])
       IN [S1 EXCEPT !.nextId = @ + 1]

\* The resting order after a fill of f units.
Fill(S, M, f) ==
  IF f = M.quantity THEN RemoveOrder(S, M)
  ELSE ReduceOrder(S, M, M.quantity - f)

\* Refund that gives nothing back.
Refund_None(S, o, price, f) == S

\* Refund that gives back the whole limit price of the f units.
Refund_FullLimit(S, o, price, f) ==
  IF o.side = "bid" THEN ReserveCoin(S, o.account, 0 - o.price * f) ELSE S

\* What an incoming bid gets back of its reservation for f units that were
\* bought at a price below its limit.
Refund(S, o, price, f) ==
  IF o.side = "bid" THEN ReserveCoin(S, o.account, 0 - (o.price - price) * f)
  ELSE S

\* Match that stops after the first fill.
Match_OneFill(S, ctx, o, q) ==
  LET opp == Side(S, o.building, o.item, Opp(o.side)) IN
  IF q = 0 \/ opp = <<>> \/ ~Crosses(o.side, o.price, Head(opp))
    THEN [s |-> S, q |-> q]
    ELSE LET M == Head(opp)
             f == Min(q, M.quantity)
             price == ExecutionPrice(o, M)
             seller == IF o.side = "ask" THEN o.account ELSE M.account
             buyer == IF o.side = "bid" THEN o.account ELSE M.account
             S1 == Settle(S, seller, buyer, o.building, o.item, f, price)
             S2 == Refund(S1, o, price, f)
             S3 == AppendTrade(S2, Trade(ctx, o.building, o.item, price, f,
                                         seller, buyer))
         IN [s |-> Fill(S3, M, f), q |-> q - f]

\* Match that fills one unit at a time.
RECURSIVE Match_UnitFills(_, _, _, _)
Match_UnitFills(S, ctx, o, q) ==
  LET opp == Side(S, o.building, o.item, Opp(o.side)) IN
  IF q = 0 \/ opp = <<>> \/ ~Crosses(o.side, o.price, Head(opp))
    THEN [s |-> S, q |-> q]
    ELSE LET M == Head(opp)
             price == ExecutionPrice(o, M)
             seller == IF o.side = "ask" THEN o.account ELSE M.account
             buyer == IF o.side = "bid" THEN o.account ELSE M.account
             S1 == Settle(S, seller, buyer, o.building, o.item, 1, price)
             S2 == Refund(S1, o, price, 1)
             S3 == AppendTrade(S2, Trade(ctx, o.building, o.item, price, 1,
                                         seller, buyer))
             S4 == Fill(S3, M, 1)
         IN Match_UnitFills(S4, ctx, o, q - 1)

\* Match that stops at a resting order of the account of the incoming one.
RECURSIVE Match_NoSelf(_, _, _, _)
Match_NoSelf(S, ctx, o, q) ==
  LET opp == Side(S, o.building, o.item, Opp(o.side)) IN
  IF q = 0 \/ opp = <<>> \/ ~Crosses(o.side, o.price, Head(opp))
     \/ Head(opp).account = o.account
    THEN [s |-> S, q |-> q]
    ELSE LET M == Head(opp)
             f == Min(q, M.quantity)
             price == ExecutionPrice(o, M)
             seller == IF o.side = "ask" THEN o.account ELSE M.account
             buyer == IF o.side = "bid" THEN o.account ELSE M.account
             S1 == Settle(S, seller, buyer, o.building, o.item, f, price)
             S2 == Refund(S1, o, price, f)
             S3 == AppendTrade(S2, Trade(ctx, o.building, o.item, price, f,
                                         seller, buyer))
             S4 == Fill(S3, M, f)
         IN Match_NoSelf(S4, ctx, o, q - f)

RECURSIVE Match(_, _, _, _)
Match(S, ctx, o, q) ==
  LET opp == Side(S, o.building, o.item, Opp(o.side)) IN
  IF q = 0 \/ opp = <<>> \/ ~Crosses(o.side, o.price, Head(opp))
    THEN [s |-> S, q |-> q]
    ELSE LET M == Head(opp)
             f == Min(q, M.quantity)
             price == ExecutionPrice(o, M)
             seller == IF o.side = "ask" THEN o.account ELSE M.account
             buyer == IF o.side = "bid" THEN o.account ELSE M.account
             S1 == Settle(S, seller, buyer, o.building, o.item, f, price)
             S2 == Refund(S1, o, price, f)
             S3 == AppendTrade(S2, Trade(ctx, o.building, o.item, price, f,
                                         seller, buyer))
             S4 == Fill(S3, M, f)
         IN Match(S4, ctx, o, q - f)

\* InsertNew that inserts the quantity that was placed.
InsertNew_FullQuantity(S, o, q) ==
  LET S1 == InsertOrder(S, [o EXCEPT !.id = S.nextId])
  IN [S1 EXCEPT !.nextId = @ + 1]

\* InsertNew with the lowest id that no open order has.
InsertNew_Reuse(S, o, q) ==
  LET used == {x.id : x \in OpenOrders(S)}
      id == CHOOSE n \in (Checkmark + 1)..S.nextId :
              /\ n \notin used
              /\ \A m \in (Checkmark + 1)..(n - 1) : m \in used
      S1 == InsertOrder(S, [o EXCEPT !.id = id, !.quantity = q])
  IN [S1 EXCEPT !.nextId = IF id = @ THEN @ + 1 ELSE @]

\* Inserts the unfilled rest of an incoming order under the next id.
InsertNew(S, o, q) ==
  LET S1 == InsertOrder(S, [o EXCEPT !.id = S.nextId, !.quantity = q])
  IN [S1 EXCEPT !.nextId = @ + 1]

\* TRUE iff the account can reserve what the order needs.
CanReserve(S, c) ==
  IF c.side = "bid" THEN S.coin[c.a].available >= c.p * c.n
  ELSE S.inv[<<c.b, c.a, c.i>>].available >= c.n

Reserve(S, c) ==
  IF c.side = "bid" THEN ReserveCoin(S, c.a, c.p * c.n)
  ELSE ReserveItem(S, c.b, c.a, c.i, c.n)

\* Place that counts what the account has reserved as available.
Place_CountsReserved(S, ctx, c) ==
  LET has == IF c.side = "bid" THEN S.coin[c.a].total
             ELSE S.inv[<<c.b, c.a, c.i>>].available
                  + S.inv[<<c.b, c.a, c.i>>].reserved
      need == IF c.side = "bid" THEN c.p * c.n ELSE c.n
  IN IF c.n <= 0 \/ has < need THEN S
     ELSE LET o == [id |-> 0, building |-> c.b, item |-> c.i,
                    account |-> c.a, side |-> c.side, price |-> c.p,
                    quantity |-> c.n]
              r == Match(Reserve(S, c), ctx, o, c.n)
          IN IF r.q > 0 THEN InsertNew(r.s, o, r.q) ELSE r.s

\* Place that inserts the incoming order without matching it.
Place_NoMatch(S, ctx, c) ==
  IF c.n <= 0 \/ ~CanReserve(S, c) THEN S
  ELSE InsertNew(Reserve(S, c),
                 [id |-> 0, building |-> c.b, item |-> c.i, account |-> c.a,
                  side |-> c.side, price |-> c.p, quantity |-> c.n],
                 c.n)

\* Place that inserts the incoming order also when nothing is left of it.
Place_InsertAlways(S, ctx, c) ==
  IF c.n <= 0 \/ ~CanReserve(S, c) THEN S
  ELSE LET o == [id |-> 0, building |-> c.b, item |-> c.i, account |-> c.a,
                 side |-> c.side, price |-> c.p, quantity |-> c.n]
           r == Match(Reserve(S, c), ctx, o, c.n)
       IN InsertNew(r.s, o, r.q)

Place(S, ctx, c) ==
  IF c.n <= 0 \/ ~CanReserve(S, c) THEN S
  ELSE LET o == [id |-> 0, building |-> c.b, item |-> c.i, account |-> c.a,
                 side |-> c.side, price |-> c.p, quantity |-> c.n]
           r == Match(Reserve(S, c), ctx, o, c.n)
       IN IF r.q > 0 THEN InsertNew(r.s, o, r.q) ELSE r.s

\* ------------------------------------------------------------------------
\* Cancellation.

\* Release that forgets the quantity of a bid.
Release_PriceOnly(S, o) ==
  IF o.side = "bid" THEN ReserveCoin(S, o.account, 0 - o.price)
  ELSE ReserveItem(S, o.building, o.account, o.item, 0 - o.quantity)

Release(S, o) ==
  IF o.side = "bid" THEN ReserveCoin(S, o.account, 0 - o.price * o.quantity)
  ELSE ReserveItem(S, o.building, o.account, o.item, 0 - o.quantity)

\* Cancel that does not look at the sender.
Cancel_AnyAccount(S, c) ==
  LET found == {o \in OpenOrders(S) : o.id = c.id} IN
  IF found = {} THEN S
  ELSE LET o == CHOOSE x \in found : TRUE
       IN RemoveOrder(Release(S, o), o)

\* Cancel that takes the open order of the lowest id not below the given
\* one.
Cancel_LowerBound(S, c) ==
  LET found == {o \in OpenOrders(S) : o.id >= c.id} IN
  IF found = {} THEN S
  ELSE LET o == CHOOSE x \in found : \A y \in found : x.id <= y.id
       IN IF o.account # c.a THEN S ELSE RemoveOrder(Release(S, o), o)

Cancel(S, c) ==
  LET found == {o \in OpenOrders(S) : o.id = c.id} IN
  IF found = {} THEN S
  ELSE LET o == CHOOSE x \in found : TRUE
       IN IF o.account # c.a THEN S ELSE RemoveOrder(Release(S, o), o)

\* ------------------------------------------------------------------------
\* Transfer of items inside a building, and the fee of a building.

\* Transfer that is recorded as a trade at the price 0.
Transfer_AsTrade(S, c) ==
  IF c.n <= 0 \/ S.inv[<<c.b, c.a, c.i>>].available < c.n THEN S
  ELSE AppendTrade(
         CreditItem(CreditItem(S, c.b, c.a, c.i, 0 - c.n),
                    c.b, c.to, c.i, c.n),
         Trade([height |-> 0, time |-> 0], c.b, c.i, 0, c.n, c.a, c.to))

\* Transfer that does not take the units from the sender.
Transfer_NoDebit(S, c) ==
  IF c.n <= 0 \/ S.inv[<<c.b, c.a, c.i>>].available < c.n THEN S
  ELSE CreditItem(S, c.b, c.to, c.i, c.n)

Transfer(S, c) ==
  IF c.n <= 0 \/ S.inv[<<c.b, c.a, c.i>>].available < c.n THEN S
  ELSE CreditItem(CreditItem(S, c.b, c.a, c.i, 0 - c.n), c.b, c.to, c.i, c.n)

\* SetFee that takes a fee out of range as the nearest fee in range.
SetFee_Clamped(S, c) ==
  IF c.a # owner[c.b] THEN S
  ELSE LET fee == IF c.fee < 0 THEN 0
                  ELSE Min(c.fee, BpsDenominator - 1)
       IN [S EXCEPT !.dexfee[c.b] = fee,
                    !.log = Append(@, [op |-> "fee", b |-> c.b,
                                       old |-> S.dexfee[c.b]])]

\* SetFee that takes the configuration of any account.
SetFee_AnySender(S, c) ==
  IF c.fee < 0 \/ c.fee >= BpsDenominator THEN S
  ELSE [S EXCEPT !.dexfee[c.b] = c.fee,
                 !.log = Append(@, [op |-> "fee", b |-> c.b,
                                    old |-> S.dexfee[c.b]])]

\* Only the owner of a building can configure it.
SetFee(S, c) ==
  IF c.a # owner[c.b] \/ c.fee < 0 \/ c.fee >= BpsDenominator THEN S
  ELSE [S EXCEPT !.dexfee[c.b] = c.fee,
                 !.log = Append(@, [op |-> "fee", b |-> c.b,
                                    old |-> S.dexfee[c.b]])]

\* One command of a block.
Apply(S, ctx, c) ==
  CASE c.type = "place" -> Place(S, ctx, c)
    [] c.type = "cancel" -> Cancel(S, c)
    [] c.type = "transfer" -> Transfer(S, c)
    [] c.type = "fee" -> SetFee(S, c)

\* ApplyAll with the commands applied last to first.
RECURSIVE ApplyAll_Reversed(_, _, _)
ApplyAll_Reversed(S, ctx, cs) ==
  IF cs = <<>> THEN S
  ELSE Apply(ApplyAll_Reversed(S, ctx, Tail(cs)), ctx, Head(cs))

RECURSIVE ApplyAll(_, _, _)
ApplyAll(S, ctx, cs) ==
  IF cs = <<>> THEN S ELSE ApplyAll(Apply(S, ctx, Head(cs)), ctx, Tail(cs))

\* ------------------------------------------------------------------------
\* Undo frames.

\* Applies the inverse operation e; nothing is logged while undoing.
Undo(S, e) ==
  LET T ==
    CASE e.op = "reserveCoin" -> ReserveCoin(S, e.a, e.d)
      [] e.op = "creditCoin" -> CreditCoin(S, e.a, e.d)
      [] e.op = "debitReservedCoin" -> DebitReservedCoin(S, e.a, e.d)
      [] e.op = "reserveItem" -> ReserveItem(S, e.b, e.a, e.i, e.d)
      [] e.op = "creditItem" -> CreditItem(S, e.b, e.a, e.i, e.d)
      [] e.op = "debitReservedItem" ->
           DebitReservedItem(S, e.b, e.a, e.i, e.d)
      [] e.op = "insert" ->
           [WithSide(S, e.o.building, e.o.item, e.o.side,
                     Remove(Side(S, e.o.building, e.o.item, e.o.side),
                            e.o.id))
              EXCEPT !.nextId = e.o.id]
      [] e.op = "remove" ->
           WithSide(S, e.o.building, e.o.item, e.o.side,
                    Insert(e.o.side,
                           Side(S, e.o.building, e.o.item, e.o.side), e.o))
      [] e.op = "reduce" ->
           WithSide(S, e.o.building, e.o.item, e.o.side,
                    SetQuantity(Side(S, e.o.building, e.o.item, e.o.side),
                                e.o.id, e.o.quantity))
      [] e.op = "trade" ->
           [S EXCEPT !.trades = SubSeq(@, 1, Len(@) - 1)]
      [] e.op = "fee" -> [S EXCEPT !.dexfee[e.b] = e.old]
  IN [T EXCEPT !.log = <<>>]

\* Applies the inverse operations of a frame, the last one first.
RECURSIVE UndoAll(_, _)
UndoAll(S, frame) ==
  IF frame = <<>> THEN S
  ELSE UndoAll(Undo(S, frame[Len(frame)]),
               SubSeq(frame, 1, Len(frame) - 1))

\* ------------------------------------------------------------------------
\* The moves the accounts send (dex.py), and the blocks.

PlaceInputs ==
  {[type |-> "place", a |-> "seller", b |-> Checkmark, i |-> "foo",
    side |-> "ask", p |-> 100, n |-> 2],
   [type |-> "place", a |-> "seller", b |-> Checkmark, i |-> "foo",
    side |-> "ask", p |-> 0, n |-> 2],
   [type |-> "place", a |-> "buyer", b |-> Checkmark, i |-> "foo",
    side |-> "bid", p |-> 10, n |-> 1],
   [type |-> "place", a |-> "buyer", b |-> Checkmark, i |-> "foo",
    side |-> "bid", p |-> 200, n |-> 4],
   [type |-> "place", a |-> "buyer", b |-> Ancient, i |-> "foo",
    side |-> "bid", p |-> 10, n |-> 1]}

TransferInputs ==
  {[type |-> "transfer", a |-> "seller", b |-> Checkmark, i |-> "bar",
    n |-> 5, to |-> "gifted"]}

\* The owner of the building makes another fee effective.
FeeInputs ==
  {[type |-> "fee", a |-> "building", b |-> Checkmark, fee |-> f] :
     f \in FeeValues \ {dexfee[Checkmark]}}

\* The block time of the block at height h of the original or of the
\* alternate branch.
BlockTime(h, alt) == 2 * h + (IF alt THEN 1 ELSE 0)

Ctx == [height |-> Len(chain) + 1,
        time |-> BlockTime(Len(chain) + 1, stale # <<>>)]

InitCoin ==
  [a \in Accounts |->
     IF a = "buyer"
       THEN [available |-> InitialCoins, reserved |-> 0,
             total |-> InitialCoins]
       ELSE [available |-> 0, reserved |-> 0, total |-> 0]]

InitInv ==
  [k \in Buildings \X Accounts \X Items |->
     [available |-> IF k[1] = Checkmark /\ k[2] = "seller"
                      THEN (IF k[3] = "foo" THEN InitialFoo ELSE InitialBar)
                      ELSE 0,
      reserved |-> 0]]

\* The state at the fork point of dex.py: nothing was traded or ordered.
InitState ==
  [coin |-> InitCoin, inv |-> InitInv,
   book |-> [k \in Buildings \X Items |-> [bids |-> <<>>, asks |-> <<>>]],
   nextId |-> Checkmark + 1, trades |-> <<>>,
   dexfee |-> [b \in Buildings |-> IF b = Checkmark THEN 1000 ELSE 0]]

\* The state dex.py expects after its block of cancels: of the four orders
\* placed, the ask at 100 and the bid at 10 are open, and 5 bar were given
\* to "gifted".
AfterCancels ==
  [InitState EXCEPT
     !.coin["buyer"] = [available |-> 990, reserved |-> 10, total |-> 1000],
     !.inv[<<Checkmark, "seller", "foo">>] = [available |-> 8, reserved |-> 2],
     !.inv[<<Checkmark, "seller", "bar">>] = [available |-> 15, reserved |-> 0],
     !.inv[<<Checkmark, "gifted", "bar">>] = [available |-> 5, reserved |-> 0],
     !.book[<<Checkmark, "foo">>] =
        [bids |-> <<[id |-> Checkmark + 3, building |-> Checkmark,
                     item |-> "foo", account |-> "buyer", side |-> "bid",
                     price |-> 10, quantity |-> 1]>>,
         asks |-> <<[id |-> Checkmark + 1, building |-> Checkmark,
                     item |-> "foo", account |-> "seller", side |-> "ask",
                     price |-> 100, quantity |-> 2]>>],
     !.nextId = Checkmark + 5]

InitStates == {InitState, AfterCancels}

\* The value of a field that a configuration does not set.
Unset == 0 - 1

NoConfig == [dexfee |-> Unset, servicefee |-> Unset]

\* No building is configured and no configuration move was sent.
NoConfigMoves ==
  /\ tip = 0
  /\ pending = <<>>
  /\ sched = <<>>
  /\ config = [b \in Buildings |-> NoConfig]
  /\ confirmed = <<>>

Init ==
  /\ NoConfigMoves
  /\ \E s \in InitStates :
       /\ coin = s.coin
       /\ inv = s.inv
       /\ book = s.book
       /\ nextId = s.nextId
       /\ trades = s.trades
       /\ dexfee = s.dexfee
  /\ log = <<>>
  /\ inBlock = FALSE
  /\ cmds = <<>>
  /\ chain = <<>>
  /\ stale = <<>>
  /\ pre = InitState
  /\ altLen = 0
  /\ altSeen = FALSE
  /\ orig = InitState
  /\ reorgDone = "none"
  /\ nsteps = 0

\* Writes the state S back to the variables.
Store(S) ==
  /\ coin' = S.coin
  /\ inv' = S.inv
  /\ book' = S.book
  /\ nextId' = S.nextId
  /\ trades' = S.trades
  /\ dexfee' = S.dexfee
  /\ log' = S.log

\* Snapshot that reads the state under mutation.
Snapshot_Dirty == State

\* What a read query returns: the state of the last block boundary.
Snapshot == IF inBlock THEN pre ELSE State

\* A new block starts: its undo frame is opened.  Blocks without a command
\* change nothing and are left out.
BeginBlock ==
  /\ UNCHANGED cfgVars
  /\ ~inBlock
  /\ Len(chain) < MaxHeight
  /\ nsteps < MaxSteps
  /\ inBlock' = TRUE
  /\ cmds' = <<>>
  /\ log' = <<>>
  /\ reorgDone' = "none"
  /\ pre' = State
  /\ orig' = IF stale = <<>> THEN InitState ELSE orig
  /\ UNCHANGED <<coin, inv, book, nextId, trades, dexfee, chain, stale,
                 altLen, altSeen, nsteps>>

\* The command c is the next one of the current block.
Command(c) ==
  /\ UNCHANGED cfgVars
  /\ inBlock
  /\ Len(cmds) < MaxBlockCmds
  /\ nsteps < MaxSteps
  /\ Store(Apply(St, Ctx, c))
  /\ cmds' = Append(cmds, c)
  /\ nsteps' = nsteps + 1
  /\ UNCHANGED <<inBlock, chain, stale, pre, altLen, altSeen, orig,
                 reorgDone>>

PlaceOrder == \E c \in PlaceInputs : Command(c)

CancelOrder ==
  \E a \in Traders, id \in (Checkmark + 1)..(nextId - 1) :
    Command([type |-> "cancel", a |-> a, id |-> id])

TransferAsset == \E c \in TransferInputs : Command(c)

FeeUpdate == \E c \in FeeInputs : Command(c)

\* The block is complete: its frame becomes part of the committed history.
CommitBlock ==
  /\ UNCHANGED cfgVars
  /\ inBlock
  /\ cmds # <<>>
  /\ inBlock' = FALSE
  /\ chain' = Append(chain, [time |-> Ctx.time, cmds |-> cmds,
                             undo |-> log,
                             pre |-> pre])
  /\ altLen' = IF stale # <<>> THEN altLen + 1 ELSE altLen
  /\ altSeen' = (altSeen \/ (stale # <<>> /\ log # <<>>))
  /\ cmds' = <<>>
  /\ log' = <<>>
  /\ pre' = InitState
  /\ UNCHANGED <<coin, inv, book, nextId, trades, dexfee, stale, orig,
                 reorgDone, nsteps>>

\* RollbackBlock that inverts the frame of the oldest block.
RollbackBlock_FirstFrame ==
  /\ UNCHANGED cfgVars
  /\ ~inBlock
  /\ chain # <<>>
  /\ stale # <<>> \/ nsteps < MaxSteps
  /\ nsteps' = IF stale = <<>> THEN nsteps + 1 ELSE nsteps
  /\ LET blk == chain[Len(chain)] IN
       /\ Store(UndoAll(St, chain[1].undo))
       /\ chain' = SubSeq(chain, 1, Len(chain) - 1)
       /\ stale' = IF altLen > 0 THEN stale ELSE <<blk>> \o stale
       /\ altLen' = IF altLen > 0 THEN altLen - 1 ELSE 0
       /\ orig' = IF stale = <<>> THEN State ELSE orig
  /\ reorgDone' = "none"
  /\ UNCHANGED <<inBlock, cmds, pre, altSeen>>

\* RollbackBlock that drops a block of the alternate branch without
\* inverting its frame.
RollbackBlock_KeepAlt ==
  /\ UNCHANGED cfgVars
  /\ ~inBlock
  /\ chain # <<>>
  /\ stale # <<>> \/ nsteps < MaxSteps
  /\ nsteps' = IF stale = <<>> THEN nsteps + 1 ELSE nsteps
  /\ LET blk == chain[Len(chain)] IN
       /\ Store(IF altLen > 0 THEN St ELSE UndoAll(St, blk.undo))
       /\ chain' = SubSeq(chain, 1, Len(chain) - 1)
       /\ stale' = IF altLen > 0 THEN stale ELSE <<blk>> \o stale
       /\ altLen' = IF altLen > 0 THEN altLen - 1 ELSE 0
       /\ orig' = IF stale = <<>> THEN State ELSE orig
  /\ reorgDone' = "none"
  /\ UNCHANGED <<inBlock, cmds, pre, altSeen>>

\* RollbackBlock that does not wait for the block in progress.
RollbackBlock_Anytime ==
  /\ UNCHANGED cfgVars
  /\ chain # <<>>
  /\ stale # <<>> \/ nsteps < MaxSteps
  /\ nsteps' = IF stale = <<>> THEN nsteps + 1 ELSE nsteps
  /\ LET blk == chain[Len(chain)] IN
       /\ Store(UndoAll(St, blk.undo))
       /\ chain' = SubSeq(chain, 1, Len(chain) - 1)
       /\ stale' = IF altLen > 0 THEN stale ELSE <<blk>> \o stale
       /\ altLen' = IF altLen > 0 THEN altLen - 1 ELSE 0
       /\ orig' = IF stale = <<>> THEN State ELSE orig
  /\ reorgDone' = "none"
  /\ UNCHANGED <<inBlock, cmds, pre, altSeen>>

\* invalidateblock: the last committed block is detached and its frame is
\* inverted.  A block of the original branch is kept for reconsiderblock.
RollbackBlock ==
  /\ UNCHANGED cfgVars
  /\ ~inBlock
  /\ chain # <<>>
  /\ stale # <<>> \/ nsteps < MaxSteps
  /\ nsteps' = IF stale = <<>> THEN nsteps + 1 ELSE nsteps
  /\ LET blk == chain[Len(chain)] IN
       /\ Store(UndoAll(St, blk.undo))
       /\ chain' = SubSeq(chain, 1, Len(chain) - 1)
       /\ stale' = IF altLen > 0 THEN stale ELSE <<blk>> \o stale
       /\ altLen' = IF altLen > 0 THEN altLen - 1 ELSE 0
       /\ orig' = IF stale = <<>> THEN State ELSE orig
  /\ reorgDone' = "none"
  /\ UNCHANGED <<inBlock, cmds, pre, altSeen>>

\* RedoBlock that applies the block with the time of the replay instead of
\* the time of the block.
RedoBlock_LocalTime ==
  /\ UNCHANGED cfgVars
  /\ ~inBlock
  /\ stale # <<>>
  /\ altLen = 0
  /\ LET blk == Head(stale)
         S == ApplyAll(St, [height |-> Len(chain) + 1,
                            time |-> BlockTime(Len(chain) + 1, TRUE)],
                       blk.cmds)
     IN /\ Store([S EXCEPT !.log = <<>>])
        /\ chain' = Append(chain, [time |-> blk.time, cmds |-> blk.cmds,
                                   undo |-> S.log, pre |-> State])
  /\ stale' = Tail(stale)
  /\ reorgDone' = IF Tail(stale) # <<>> THEN "none"
                  ELSE IF altSeen THEN "switch" ELSE "replay"
  /\ altSeen' = IF Tail(stale) # <<>> THEN altSeen ELSE FALSE
  /\ UNCHANGED <<inBlock, cmds, pre, altLen, orig, nsteps>>

\* reconsiderblock: the oldest detached block is applied again, with its
\* commands in their order.
RedoBlock ==
  /\ UNCHANGED cfgVars
  /\ ~inBlock
  /\ stale # <<>>
  /\ altLen = 0
  /\ LET blk == Head(stale)
         S == ApplyAll(St, [height |-> Len(chain) + 1, time |-> blk.time],
                       blk.cmds)
     IN /\ Store([S EXCEPT !.log = <<>>])
        /\ chain' = Append(chain, [time |-> blk.time, cmds |-> blk.cmds,
                                   undo |-> S.log, pre |-> State])
  /\ stale' = Tail(stale)
  /\ reorgDone' = IF Tail(stale) # <<>> THEN "none"
                  ELSE IF altSeen THEN "switch" ELSE "replay"
  /\ altSeen' = IF Tail(stale) # <<>> THEN altSeen ELSE FALSE
  /\ UNCHANGED <<inBlock, cmds, pre, altLen, orig, nsteps>>

Next ==
  \/ BeginBlock
  \/ PlaceOrder
  \/ CancelOrder
  \/ TransferAsset
  \/ FeeUpdate
  \/ CommitBlock
  \/ RollbackBlock
  \/ RedoBlock

Spec == Init /\ [][Next]_vars

\* The reorganisations of dex.py: blocks are applied, detached and applied
\* again above its fork point.
ReorgInit == Init /\ State = InitState

ReorgSpec == ReorgInit /\ [][Next]_vars

\* ------------------------------------------------------------------------
\* Forward processing with a wider set of moves, invalid ones included.

\* Orders at a price whose fee is rounded, an order that crosses at an equal
\* price, a bid that can be afforded once but not twice, an ask of items
\* the account does not have, orders of no and of negative quantity, and an
\* ask of the account that bids.
SentOrders ==
  {[type |-> "place", a |-> "seller", b |-> Checkmark, i |-> "foo",
    side |-> "ask", p |-> 15, n |-> 1],
   [type |-> "place", a |-> "buyer", b |-> Checkmark, i |-> "foo",
    side |-> "ask", p |-> 15, n |-> 1],
   [type |-> "place", a |-> "buyer", b |-> Checkmark, i |-> "foo",
    side |-> "bid", p |-> 15, n |-> 2],
   [type |-> "place", a |-> "buyer", b |-> Checkmark, i |-> "foo",
    side |-> "bid", p |-> 100, n |-> 7],
   [type |-> "place", a |-> "gifted", b |-> Checkmark, i |-> "foo",
    side |-> "ask", p |-> 15, n |-> 1],
   [type |-> "place", a |-> "buyer", b |-> Checkmark, i |-> "foo",
    side |-> "bid", p |-> 10, n |-> 0],
   [type |-> "place", a |-> "seller", b |-> Checkmark, i |-> "foo",
    side |-> "ask", p |-> 15, n |-> 0 - 1]}

\* The transfer of dex.py, and one of more than the sender has.
SentTransfers ==
  {[type |-> "transfer", a |-> "seller", b |-> Checkmark, i |-> "bar",
    n |-> n, to |-> "gifted"] : n \in {5, InitialBar + 5}}

\* Configurations: of the owned building a fee by the owner, a negative
\* fee and a fee of 100 percent by the owner and a fee by somebody else;
\* and a fee of the building without an owner.
SentConfigs ==
  {[type |-> "fee", a |-> "building", b |-> Checkmark, fee |-> LowFee],
   [type |-> "fee", a |-> "building", b |-> Checkmark, fee |-> 0 - 10],
   [type |-> "fee", a |-> "building", b |-> Checkmark,
    fee |-> BpsDenominator],
   [type |-> "fee", a |-> "seller", b |-> Checkmark, fee |-> 0],
   [type |-> "fee", a |-> "seller", b |-> Ancient, fee |-> LowFee]}

SendOrder == \E c \in SentOrders : Command(c)

\* A cancel of any id assigned so far or of the id not yet assigned.
SendCancel ==
  \E a \in Traders, id \in (Checkmark + 1)..nextId :
    Command([type |-> "cancel", a |-> a, id |-> id])

SendTransfer == \E c \in SentTransfers : Command(c)

SendConfig == \E c \in SentConfigs : Command(c)

CmdInit ==
  /\ NoConfigMoves
  /\ coin = InitState.coin
  /\ inv = InitState.inv
  /\ book = InitState.book
  /\ nextId = InitState.nextId
  /\ trades = InitState.trades
  /\ dexfee = InitState.dexfee
  /\ log = <<>>
  /\ inBlock = FALSE
  /\ cmds = <<>>
  /\ chain = <<>>
  /\ stale = <<>>
  /\ pre = InitState
  /\ altLen = 0
  /\ altSeen = FALSE
  /\ orig = InitState
  /\ reorgDone = "none"
  /\ nsteps = 0

CmdNext ==
  \/ BeginBlock
  \/ SendOrder
  \/ SendCancel
  \/ SendTransfer
  \/ SendConfig
  \/ CommitBlock

CmdSpec == CmdInit /\ [][CmdNext]_vars

\* ------------------------------------------------------------------------
\* The run of dex.py: its moves in their order, each of them sent or left
\* out, in blocks of any length.

DexPlace(a, side, n, p) ==
  [type |-> "place", a |-> a, b |-> Checkmark, i |-> "foo",
   side |-> side, p |-> p, n |-> n]

Script ==
  <<[type |-> "transfer", a |-> "seller", b |-> Checkmark, i |-> "bar",
     n |-> 5, to |-> "gifted"],
    DexPlace("seller", "ask", 2, 100),
    DexPlace("seller", "ask", 2, 50),
    DexPlace("buyer", "bid", 1, 10),
    DexPlace("buyer", "bid", 1, 20),
    [type |-> "cancel", a |-> "buyer", id |-> Checkmark + 4],
    [type |-> "cancel", a |-> "seller", id |-> Checkmark + 2],
    DexPlace("seller", "ask", 2, 0),
    DexPlace("buyer", "bid", 4, 200)>>

\* nsteps is the number of moves of the script that were sent or left out.
DexBegin ==
  /\ UNCHANGED cfgVars
  /\ ~inBlock
  /\ nsteps < Len(Script)
  /\ inBlock' = TRUE
  /\ cmds' = <<>>
  /\ log' = <<>>
  /\ pre' = State
  /\ UNCHANGED <<coin, inv, book, nextId, trades, dexfee, chain, stale,
                 altLen, altSeen, orig, reorgDone, nsteps>>

DexSend ==
  /\ UNCHANGED cfgVars
  /\ inBlock
  /\ nsteps < Len(Script)
  /\ Store(Apply(St, Ctx, Script[nsteps + 1]))
  /\ cmds' = Append(cmds, Script[nsteps + 1])
  /\ nsteps' = nsteps + 1
  /\ UNCHANGED <<inBlock, chain, stale, pre, altLen, altSeen, orig,
                 reorgDone>>

DexSkip ==
  /\ UNCHANGED cfgVars
  /\ nsteps < Len(Script)
  /\ nsteps' = nsteps + 1
  /\ UNCHANGED <<coin, inv, book, nextId, trades, dexfee, log, inBlock,
                 cmds, chain, stale, pre, altLen, altSeen, orig, reorgDone>>

DexNext ==
  \/ DexBegin
  \/ DexSend
  \/ DexSkip
  \/ CommitBlock

DexSpec == CmdInit /\ [][DexNext]_vars

\* ------------------------------------------------------------------------
\* Scheduled configuration of buildings (buildings_config.py).

\* Number of blocks between the confirmation of a configuration move and
\* the block in which it takes effect.
ConfigDelay == 10

\* The moves of buildings_config.py: by the owner both fees, an empty
\* move, the DEX fee alone and the service fee alone with two values; by
\* another account a service fee.
ConfigMoves ==
  {[a |-> "building", b |-> Checkmark, dexfee |-> LowFee, servicefee |-> 1],
   [a |-> "building", b |-> Checkmark, dexfee |-> Unset,
    servicefee |-> Unset],
   [a |-> "building", b |-> Checkmark, dexfee |-> 2 * LowFee,
    servicefee |-> Unset],
   [a |-> "building", b |-> Checkmark, dexfee |-> Unset, servicefee |-> 2],
   [a |-> "building", b |-> Checkmark, dexfee |-> Unset, servicefee |-> 3],
   [a |-> "seller", b |-> Checkmark, dexfee |-> Unset, servicefee |-> 1]}

\* TRUE iff the move m schedules an update: its sender owns the building
\* and it names at least one field.
Schedules(m) ==
  /\ m.a = owner[m.b]
  /\ m.dexfee # Unset \/ m.servicefee # Unset

\* The update that the move m, confirmed at height h, schedules.
Scheduled(h, m) ==
  [end |-> h + ConfigDelay, b |-> m.b,
   newconfig |-> [dexfee |-> m.dexfee, servicefee |-> m.servicefee]]

\* Merge that takes the update as the whole configuration.
Merge_Replace(old, upd) == upd

\* The configuration old with the fields set that the update names.
Merge(old, upd) ==
  [dexfee |-> IF upd.dexfee # Unset THEN upd.dexfee ELSE old.dexfee,
   servicefee |-> IF upd.servicefee # Unset THEN upd.servicefee
                  ELSE old.servicefee]

\* The configurations cfg after the updates us, applied first to last.
RECURSIVE ApplyUpdates(_, _)
ApplyUpdates(cfg, us) ==
  IF us = <<>> THEN cfg
  ELSE ApplyUpdates([cfg EXCEPT ![Head(us).b] = Merge(@, Head(us).newconfig)],
                    Tail(us))

\* sendMove: a configuration move waits for the next block.
SendConfigMove ==
  /\ nsteps < MaxMoves
  /\ \E m \in ConfigMoves : pending' = Append(pending, m)
  /\ nsteps' = nsteps + 1
  /\ UNCHANGED <<coin, inv, book, nextId, trades, dexfee, log, inBlock, cmds,
                 chain, stale, pre, altLen, altSeen, orig, reorgDone,
                 tip, sched, config, confirmed>>

\* generate (1): the updates that end at the new height take effect in the
\* order in which they were scheduled, and the moves that waited are
\* confirmed in the order in which they were sent.
Generate ==
  /\ tip < MaxTip
  /\ tip' = tip + 1
  /\ LET h == tip + 1
         due == SelectSeq(sched, LAMBDA u : u.end = h)
         rest == SelectSeq(sched, LAMBDA u : u.end # h)
         valid == SelectSeq(pending, Schedules)
     IN /\ config' = ApplyUpdates(config, due)
        /\ sched' = rest \o [j \in 1..Len(valid) |-> Scheduled(h, valid[j])]
        /\ confirmed' = confirmed \o
                          [j \in 1..Len(pending) |->
                             [height |-> h, move |-> pending[j]]]
  /\ pending' = <<>>
  /\ UNCHANGED <<coin, inv, book, nextId, trades, dexfee, log, inBlock, cmds,
                 chain, stale, pre, altLen, altSeen, orig, reorgDone,
                 nsteps>>

ConfigNext == SendConfigMove \/ Generate

ConfigSpec == CmdInit /\ [][ConfigNext]_vars

\* ------------------------------------------------------------------------
\* Helpers of the properties.

RECURSIVE SumSeq(_)
SumSeq(s) == IF s = <<>> THEN 0 ELSE Head(s) + SumSeq(Tail(s))

Last(s) == s[Len(s)]

BookKeys == Buildings \X Items

\* Coin that the open bids of account a in the books ks still have to pay.
RECURSIVE BidsOver(_, _)
BidsOver(ks, a) ==
  IF ks = {} THEN 0
  ELSE LET k == CHOOSE x \in ks : TRUE
           s == book[k].bids
       IN SumSeq([j \in 1..Len(s) |->
                    IF s[j].account = a THEN s[j].price * s[j].quantity
                    ELSE 0])
          + BidsOver(ks \ {k}, a)

BidObligation(a) == BidsOver(BookKeys, a)

\* Units of item i in building b that the open asks of account a still
\* have to deliver.
AskObligation(b, a, i) ==
  LET s == book[<<b, i>>].asks
  IN SumSeq([j \in 1..Len(s) |->
               IF s[j].account = a THEN s[j].quantity ELSE 0])

\* The trades appended by the step.
NewTrades == SubSeq(trades', Len(trades) + 1, Len(trades'))

\* TRUE iff the step applies one command that trades.
TradingStep == inBlock /\ inBlock' /\ Len(trades') > Len(trades)

\* C1: in every reachable state every coin balance and every item inventory
\* has available >= 0 and reserved >= 0, and the total reported for a coin
\* balance is available + reserved.
C1_BalanceInvariant ==
  /\ \A a \in Accounts :
       /\ coin[a].available >= 0
       /\ coin[a].reserved >= 0
       /\ coin[a].total = coin[a].available + coin[a].reserved
  /\ \A k \in Buildings \X Accounts \X Items :
       inv[k].available >= 0 /\ inv[k].reserved >= 0

\* Orders were placed, a block was rolled back and applied again, and coin
\* and items are reserved.
C1_Witness ==
  /\ reorgDone = "replay"
  /\ coin["buyer"].reserved > 0
  /\ inv[<<Checkmark, "seller", "foo">>].reserved > 0

\* C2: every trade of a placement has the price of the resting order it
\* hit, that is the j-th trade of the placement has the price of the j-th
\* order of the opposing side as it was before the placement.
C2_MakerPrice ==
  [][TradingStep =>
       LET c == Last(cmds')
           opp == Side(St, c.b, c.i, Opp(c.side))
           new == NewTrades
       IN /\ c.type = "place"
          /\ Len(new) <= Len(opp)
          /\ \A j \in 1..Len(new) : new[j].price = opp[j].price]_vars

\* An ask at price 0 was just placed and traded at the price 10 of the
\* resting bid.
C2_Witness ==
  /\ inBlock /\ cmds # <<>> /\ trades # <<>>
  /\ Last(cmds).type = "place" /\ Last(cmds).side = "ask" /\ Last(cmds).p = 0
  /\ Last(trades).price = 10
  /\ Last(trades).height = Len(chain) + 1

\* C3: in every reachable state the asks of every book are sorted by
\* ascending price and the bids by descending price, equal prices by
\* ascending id.
C3_BookSorted ==
  \A k \in BookKeys :
    /\ \A j \in 1..(Len(book[k].asks) - 1) :
         LET x == book[k].asks[j]  y == book[k].asks[j + 1]
         IN x.price < y.price \/ (x.price = y.price /\ x.id < y.id)
    /\ \A j \in 1..(Len(book[k].bids) - 1) :
         LET x == book[k].bids[j]  y == book[k].bids[j + 1]
         IN x.price > y.price \/ (x.price = y.price /\ x.id < y.id)

\* After a rollback and a replay a book holds two asks of which the newer
\* one has the better price.
C3_Witness ==
  /\ reorgDone = "replay"
  /\ \E k \in BookKeys :
       /\ Len(book[k].asks) >= 2
       /\ book[k].asks[1].id > book[k].asks[2].id
       /\ book[k].asks[1].price < book[k].asks[2].price

\* C4: in every reachable state the reserved coin of an account is the sum
\* of price x quantity of its open bids, and its reserved units of an item
\* in a building are the sum of the quantities of its open asks there.
C4_ReservedMatchesOrders ==
  /\ \A a \in Accounts : coin[a].reserved = BidObligation(a)
  /\ \A k \in Buildings \X Accounts \X Items :
       inv[k].reserved = AskObligation(k[1], k[2], k[3])

\* A bid at 200 bought below its limit, its rest is still open, and the fee
\* of the building was changed afterwards.
C4_Witness ==
  /\ trades # <<>> /\ Last(trades).price < 200
  /\ Last(trades).buyer = "buyer"
  /\ \E j \in 1..Len(book[<<Checkmark, "foo">>].bids) :
       book[<<Checkmark, "foo">>].bids[j].price = 200
  /\ dexfee[Checkmark] = 0

\* C5: rolling one block back restores ledger, books, order ids, fees and
\* trade history to exactly what they were when the block started.
C5_RollbackRestores ==
  [][Len(chain') < Len(chain) => State' = Last(chain).pre]_vars

\* A block in which a trade happened has been rolled back.
C5_Witness ==
  /\ ~inBlock /\ stale # <<>> /\ altLen = 0 /\ reorgDone = "none"
  /\ \E j \in 1..Len(stale[1].undo) : stale[1].undo[j].op = "trade"
  /\ \E j \in 1..Len(stale[1].undo) : stale[1].undo[j].op = "insert"

\* C6: when the detached blocks have been applied again, the state and the
\* trade history are the ones captured before the rollback, order ids and
\* trade records included.
C6_ReplayDeterminism == reorgDone = "replay" => State = orig

\* A block that traded and created an order was rolled back and replayed.
C6_Witness ==
  /\ reorgDone = "replay"
  /\ \E b \in 1..Len(chain) :
       /\ \E j \in 1..Len(chain[b].undo) : chain[b].undo[j].op = "trade"
       /\ \E j \in 1..Len(chain[b].undo) : chain[b].undo[j].op = "insert"

\* C7: while blocks are detached and no alternate block is applied, the
\* state is the one of just before the oldest detached block, and the trade
\* history holds no trade of a height above the current one.
C7_RollbackSeveral ==
  (~inBlock /\ stale # <<>> /\ altLen = 0) =>
     /\ State = stale[1].pre
     /\ \A j \in 1..Len(trades) : trades[j].height <= Len(chain)

\* Two blocks are detached, the older one placed an order and the newer
\* one traded; books and history are empty again.
C7_Witness ==
  /\ ~inBlock /\ Len(stale) >= 2 /\ altLen = 0
  /\ stale[1].undo # <<>>
  /\ \E j \in 1..Len(stale[2].undo) : stale[2].undo[j].op = "trade"
  /\ trades = <<>>
  /\ OpenOrders(St) = {}

\* C8: when the original branch is active again after an alternate branch
\* that changed the state, the state is exactly the one captured before
\* the rollback.
C8_ForkAndBack == reorgDone = "switch" => State = orig

\* The original branch, which created an order, is active again after an
\* alternate branch.
C8_Witness ==
  /\ reorgDone = "switch"
  /\ \E b \in 1..Len(chain) :
       \E j \in 1..Len(chain[b].undo) : chain[b].undo[j].op = "insert"

\* The coin account a gains by the trades ts when the fee of each trade is
\* taken from the seller's proceeds n times: the proceeds less the fees of
\* what it sold, plus the fee of each trade in a building it owns.
Gains(ts, a, n) ==
  SumSeq([j \in 1..Len(ts) |->
            LET fee == (ts[j].cost * dexfee[ts[j].buildingid])
                         \div BpsDenominator
            IN (IF ts[j].seller = a THEN ts[j].cost - n * fee ELSE 0)
               + (IF owner[ts[j].buildingid] = a THEN fee ELSE 0)])

\* The coin account a pays as the buyer of the trades ts.
Pays(ts, a) ==
  SumSeq([j \in 1..Len(ts) |-> IF ts[j].buyer = a THEN ts[j].cost ELSE 0])

\* The fills of one placement change the balances by the proceeds and the
\* fees, the fee being taken from the seller n times.
SettlesWith(n) ==
  TradingStep =>
    LET c == Last(cmds')
        new == NewTrades
    IN \A a \in Accounts :
         /\ coin'[a].total - coin[a].total
              = Gains(new, a, n) - Pays(new, a)
         /\ (c.side = "bid" /\ c.a = a)
            \/ coin'[a].available - coin[a].available = Gains(new, a, n)

\* C9 as stated: the buyer's coin decreases by the proceeds, the owner's
\* available coin increases by fee = floor(proceeds x dexfee) and the
\* seller's available coin by proceeds - fee.
C9_SellerPaysFeeOnce == [][SettlesWith(1)]_vars

\* C9 as amended: the seller's available coin increases by proceeds minus
\* twice the fee; buyer and owner as stated.
C9_SellerPaysFeeTwice == [][SettlesWith(2)]_vars

\* A fill with a positive fee was settled in the owned building.
C9_Witness ==
  /\ trades # <<>>
  /\ Last(trades).buildingid = Checkmark
  /\ Last(trades).cost >= 10
  /\ coin["building"].available > 0
  /\ coin["seller"].available > 0
  /\ coin["buyer"].total < InitialCoins

\* TRUE iff no block above the fork point holds a fee update.
NoFeeUpdate ==
  /\ \A j \in 1..Len(chain) : \A k \in 1..Len(chain[j].cmds) :
       chain[j].cmds[k].type # "fee"
  /\ \A k \in 1..Len(cmds) : cmds[k].type # "fee"

\* A trade record without the block it was made in.
Deal(t) == [price |-> t.price, quantity |-> t.quantity, cost |-> t.cost,
            seller |-> t.seller, buyer |-> t.buyer,
            buildingid |-> t.buildingid, item |-> t.item]

\* The three trades of dex.py, the rest of the bid at 200 being the only
\* open bid of the buyer.
DexRunTraded ==
  /\ NoFeeUpdate
  /\ [j \in 1..Len(trades) |-> Deal(trades[j])] =
       <<[price |-> 10, quantity |-> 1, cost |-> 10, seller |-> "seller",
          buyer |-> "buyer", buildingid |-> Checkmark, item |-> "foo"],
         [price |-> 0, quantity |-> 1, cost |-> 0, seller |-> "seller",
          buyer |-> "buyer", buildingid |-> Checkmark, item |-> "foo"],
         [price |-> 100, quantity |-> 2, cost |-> 200, seller |-> "seller",
          buyer |-> "buyer", buildingid |-> Checkmark, item |-> "foo"]>>
  /\ \A k \in BookKeys :
       book[k].bids = IF k = <<Checkmark, "foo">>
                        THEN <<[id |-> nextId - 1, building |-> Checkmark,
                                item |-> "foo", account |-> "buyer",
                                side |-> "bid", price |-> 200,
                                quantity |-> 1]>>
                        ELSE <<>>

\* C10: after the three trades of dex.py at the fee of 1000 the buyer has
\* 590 available and 200 reserved, the owner of the building 21 and the
\* seller 210 - 2 x 21 = 168; and whenever all trades were sales of the
\* seller in the building of the owner, the seller holds the total cost of
\* the trades less twice what the owner holds.
C10_DexRunBalances ==
  /\ DexRunTraded =>
       /\ coin["buyer"].available = 590 /\ coin["buyer"].reserved = 200
       /\ coin["building"].available = 21 /\ coin["building"].reserved = 0
       /\ coin["seller"].available = 168 /\ coin["seller"].reserved = 0
  /\ (\A j \in 1..Len(trades) :
        /\ trades[j].seller = "seller" /\ trades[j].buyer = "buyer"
        /\ owner[trades[j].buildingid] = "building")
     => coin["seller"].total
          = SumSeq([j \in 1..Len(trades) |-> trades[j].cost])
            - 2 * coin["building"].total

\* The three trades of dex.py have been made.
C10_Witness == DexRunTraded /\ coin["building"].total > 0

\* ------------------------------------------------------------------------
\* Properties of forward processing (CmdSpec).

\* TRUE iff the step applies one command.
CommandStep == inBlock /\ inBlock' /\ cmds' # cmds

\* C11: the fee of every fill is the integer part of proceeds x dexfee, it
\* is at least 0 and at most the proceeds, and 0 for proceeds 0; the owner
\* of the building gains the sum of the fees of the fills, each rounded on
\* its own, and no seller of a fill has less available coin afterwards.
C11_FeePerFillFloor ==
  [][TradingStep =>
       LET new == NewTrades
           bps == dexfee[Last(cmds').b]
           fees == [j \in 1..Len(new) |->
                      (new[j].cost * bps) \div BpsDenominator]
           own == owner[Last(cmds').b]
       IN /\ \A j \in 1..Len(new) :
               /\ 0 <= fees[j] /\ fees[j] <= new[j].cost
               /\ fees[j] * BpsDenominator <= new[j].cost * bps
               /\ new[j].cost * bps < (fees[j] + 1) * BpsDenominator
               /\ new[j].cost = 0 => fees[j] = 0
               /\ coin'[new[j].seller].available
                    >= coin[new[j].seller].available
          /\ own # NoOwner =>
               coin'[own].available - coin[own].available = SumSeq(fees)]_vars

\* One placement made two fills of cost 15 each at the fee of 10 percent:
\* the owner of the building has 1 + 1, and not the 3 of the rounded sum.
C11_Witness ==
  /\ inBlock /\ Len(trades) = 2
  /\ trades[1].cost = 15 /\ trades[2].cost = 15
  /\ dexfee[Checkmark] = 1000
  /\ coin["building"].available = 2
  /\ coin["seller"].available = 26

\* TRUE iff the step applies a place-order command.
PlaceStep == CommandStep /\ Last(cmds').type = "place"

\* TRUE iff the account of the place-order command c has what the order
\* needs in its available balance.
Affordable(c) ==
  IF c.side = "bid" THEN coin[c.a].available >= c.p * c.n
  ELSE inv[<<c.b, c.a, c.i>>].available >= c.n

\* The orders of s with the quantities qs taken from its first orders,
\* without the orders that have nothing left.
Taken(s, qs) ==
  SelectSeq([j \in 1..Len(s) |->
               IF j <= Len(qs) THEN [s[j] EXCEPT !.quantity = @ - qs[j]]
               ELSE s[j]],
            LAMBDA x : x.quantity > 0)

\* The orders of the step's book that the step created.
Created ==
  {o \in UNION {SeqToSet(book'[k].bids) \cup SeqToSet(book'[k].asks) :
                  k \in BookKeys} : o.id >= nextId}

\* C12: a valid placement fills the opposing orders in the order best
\* price, then lowest id, each fill with the smaller of what is left of the
\* incoming and of the resting order; it stops only when nothing is left or
\* the best opposing order does not cross (an equal price crosses); what is
\* left is inserted iff it is positive, so fills plus remainder are the
\* placed quantity.
C12_MatchLoop ==
  [][(PlaceStep /\ Last(cmds').n > 0 /\ Affordable(Last(cmds'))) =>
       LET c == Last(cmds')
           opp == Side(St, c.b, c.i, Opp(c.side))
           new == NewTrades
           k == Len(new)
           qs == [j \in 1..k |-> new[j].quantity]
           left(j) == c.n - SumSeq(SubSeq(qs, 1, j))
           cross(M) == IF c.side = "bid" THEN M.price <= c.p
                       ELSE M.price >= c.p
           better(x, y) ==
             \/ IF c.side = "bid" THEN x.price < y.price
                ELSE x.price > y.price
             \/ x.price = y.price /\ x.id < y.id
       IN /\ k <= Len(opp)
          /\ \A j \in 1..k :
               /\ cross(opp[j])
               /\ \A m \in (j + 1)..Len(opp) : better(opp[j], opp[m])
               /\ qs[j] = Min(left(j - 1), opp[j].quantity)
               /\ qs[j] > 0
               /\ opp[j].account
                    = IF c.side = "bid" THEN new[j].seller ELSE new[j].buyer
          /\ left(k) = 0 \/ k = Len(opp) \/ ~cross(opp[k + 1])
          /\ (IF c.side = "bid" THEN book'[<<c.b, c.i>>].asks
              ELSE book'[<<c.b, c.i>>].bids) = Taken(opp, qs)
          /\ Created =
               IF left(k) > 0
                 THEN {[id |-> nextId, building |-> c.b, item |-> c.i,
                        account |-> c.a, side |-> c.side, price |-> c.p,
                        quantity |-> left(k)]}
                 ELSE {}]_vars

\* A bid of 2 at 15 met two asks of 1 at 15: two fills at the equal price,
\* the older ask first, and nothing is left to insert.
C12_Witness ==
  /\ inBlock /\ cmds # <<>>
  /\ Last(cmds).type = "place" /\ Last(cmds).side = "bid"
  /\ Last(cmds).p = 15 /\ Last(cmds).n = 2
  /\ Len(trades) = 2
  /\ trades[1].price = 15 /\ trades[1].quantity = 1
  /\ trades[2].price = 15 /\ trades[2].quantity = 1
  /\ trades[2].height = Len(chain) + 1
  /\ OpenOrders(St) = {}
  /\ nextId = Checkmark + 3

\* The open orders of the current state.
Open == OpenOrders(St)

\* TRUE iff the step applies a cancel command.
CancelStep == CommandStep /\ Last(cmds').type = "cancel"

\* The balance bal with d moved from reserved to available.
Released(bal, d) ==
  [bal EXCEPT !.available = @ + d, !.reserved = @ - d]

\* C13: a cancel of an open order by its account removes the order from
\* its book and moves price x quantity left of coin (bid) or the quantity
\* left of the item (ask) from reserved to available; no other balance,
\* order or trade record changes.
C13_CancelReleases ==
  [][CancelStep =>
       LET c == Last(cmds') IN
       \A o \in Open :
         (o.id = c.id /\ o.account = c.a) =>
           /\ \A k \in BookKeys :
                /\ book'[k].bids
                     = SelectSeq(book[k].bids, LAMBDA x : x.id # o.id)
                /\ book'[k].asks
                     = SelectSeq(book[k].asks, LAMBDA x : x.id # o.id)
           /\ Open' = Open \ {o}
           /\ coin' = IF o.side = "bid"
                        THEN [coin EXCEPT ![o.account] =
                                Released(@, o.price * o.quantity)]
                        ELSE coin
           /\ inv' = IF o.side = "ask"
                       THEN [inv EXCEPT ![<<o.building, o.account, o.item>>] =
                               Released(@, o.quantity)]
                       ELSE inv
           /\ trades' = trades /\ nextId' = nextId /\ dexfee' = dexfee]_vars

\* The bid of 7 at 100 was filled by 1 and then cancelled by the buyer:
\* the 600 of the 6 units left are available again.
C13_Witness ==
  /\ inBlock /\ cmds # <<>>
  /\ Last(cmds).type = "cancel" /\ Last(cmds).a = "buyer"
  /\ Len(trades) = 1 /\ trades[1].price = 100 /\ trades[1].quantity = 1
  /\ Open = {}
  /\ coin["buyer"] = [available |-> 900, reserved |-> 0, total |-> 900]

\* C14: the open orders have different ids, all below the next id; a
\* command creates at most one order, which receives the next id, also
\* when part of it was matched on placement, and the next id advances
\* past it and never goes back: no id is assigned twice, whatever was
\* cancelled or filled in between.
C14_OrderIds ==
  [][/\ \A x, y \in Open : x.id = y.id => x = y
     /\ \A x \in Open : Checkmark < x.id /\ x.id < nextId
     /\ CommandStep =>
          /\ Cardinality(Created) <= 1
          /\ \A x \in Created : x.id = nextId
          /\ nextId' >= nextId + Cardinality(Created)
          /\ \A x \in Open' \ Created : \E y \in Open : y.id = x.id
     /\ nextId' >= nextId]_vars

\* The first order was filled by a bid of 2 at 15, whose rest of 1 is open
\* under the second id.
C14_Witness ==
  /\ Len(trades) = 1
  /\ nextId = Checkmark + 3
  /\ \E o \in Open :
       /\ Open = {o}
       /\ o.id = Checkmark + 2 /\ o.side = "bid" /\ o.quantity = 1

\* C15: only a step that applies a place-order command appends trades or
\* changes an order: after a cancel, a transfer, a fee update, the start
\* or the end of a block the trade history is the same and every open
\* order is an order that was open before, with the same quantity.
C15_MatchOnlyOnPlace ==
  [][~PlaceStep => (trades' = trades /\ Open' \subseteq Open)]_vars

\* After a fill that left a bid open, items were transferred: the one
\* trade and the open bid are as before.
C15_Witness ==
  /\ inBlock /\ cmds # <<>>
  /\ Last(cmds).type = "transfer"
  /\ inv[<<Checkmark, "gifted", "bar">>].available = 5
  /\ Len(trades) = 1
  /\ Open # {}

\* C16: a cancel sent by an account other than the one of the open order
\* changes nothing: the order stays in its book with its quantity, and
\* balances, reservations, ids, fees and trades are the same.
C16_CancelByNonOwner ==
  [][CancelStep =>
       LET c == Last(cmds') IN
       (\E o \in Open : o.id = c.id /\ o.account # c.a) =>
          State' = State]_vars

\* The buyer sent a cancel of an ask of the seller: the ask is open and its
\* unit is reserved.
C16_Witness ==
  /\ inBlock /\ cmds # <<>>
  /\ Last(cmds).type = "cancel" /\ Last(cmds).a = "buyer"
  /\ \E o \in Open :
       /\ o.id = Last(cmds).id
       /\ o.account = "seller" /\ o.side = "ask" /\ o.quantity = 1
  /\ inv[<<Checkmark, "seller", "foo">>].reserved >= 1

\* C17: a cancel of an id that no open order has, because it was never
\* assigned or its order was filled or cancelled before, changes nothing;
\* so a second cancel of an order releases nothing again.
C17_CancelOfMissing ==
  [][CancelStep =>
       LET c == Last(cmds') IN
       (\A o \in Open : o.id # c.id) => State' = State]_vars

\* The buyer sent a cancel of the id of the filled ask while the rest of
\* the buyer's own bid is open under the next id: the bid and its
\* reservation are still there.
C17_Witness ==
  /\ inBlock /\ cmds # <<>>
  /\ Last(cmds) = [type |-> "cancel", a |-> "buyer", id |-> Checkmark + 1]
  /\ Len(trades) = 1
  /\ \E o \in Open :
       /\ Open = {o}
       /\ o.id = Checkmark + 2 /\ o.account = "buyer"
  /\ coin["buyer"].reserved = 15

\* C18: a place-order command of a positive quantity whose price x quantity
\* of coin (bid) or quantity of the item in the building (ask) is more than
\* the account has available, what its open orders reserve not counted,
\* changes nothing: no order, no trade, no balance.
C18_InsufficientBalance ==
  [][(PlaceStep /\ Last(cmds').n > 0 /\ ~Affordable(Last(cmds'))) =>
       State' = State]_vars

\* The bid of 7 at 100 was sent twice in one block: the first reserved 700
\* of the 1000 coin, the second found 300 available and was ignored.
C18_Witness ==
  /\ inBlock /\ Len(cmds) = 2
  /\ cmds[1] = cmds[2]
  /\ cmds[2].type = "place" /\ cmds[2].p = 100 /\ cmds[2].n = 7
  /\ coin["buyer"] = [available |-> 300, reserved |-> 700, total |-> 1000]
  /\ Cardinality(Open) = 1
  /\ trades = <<>>

\* TRUE iff the command c is valid in the state S: a positive quantity that
\* the available balance covers, a cancel of an open order by its account,
\* a fee in range set by the owner of the building.
IsValid(S, c) ==
  CASE c.type = "place" ->
         /\ c.n > 0
         /\ IF c.side = "bid" THEN S.coin[c.a].available >= c.p * c.n
            ELSE S.inv[<<c.b, c.a, c.i>>].available >= c.n
    [] c.type = "cancel" ->
         \E o \in OpenOrders(S) : o.id = c.id /\ o.account = c.a
    [] c.type = "transfer" ->
         c.n > 0 /\ S.inv[<<c.b, c.a, c.i>>].available >= c.n
    [] c.type = "fee" ->
         c.a = owner[c.b] /\ 0 <= c.fee /\ c.fee < BpsDenominator

\* The commands cs without those that are invalid when their turn comes.
RECURSIVE ValidOnly(_, _, _)
ValidOnly(S, ctx, cs) ==
  IF cs = <<>> THEN <<>>
  ELSE IF IsValid(S, Head(cs))
         THEN <<Head(cs)>>
              \o ValidOnly(Apply(S, ctx, Head(cs)), ctx, Tail(cs))
         ELSE ValidOnly(S, ctx, Tail(cs))

\* The state after the commands cs of a block without its invalid
\* commands, applied to the state v the block started in.
WithoutInvalid(v, ctx, cs) ==
  LET S == [coin |-> v.coin, inv |-> v.inv, book |-> v.book,
            nextId |-> v.nextId, trades |-> v.trades, dexfee |-> v.dexfee,
            log |-> <<>>]
  IN View(ApplyAll(S, ctx, ValidOnly(S, ctx, cs)))

\* C19: the state during and after a block is the state the block without
\* its invalid commands gives: a command of no or negative quantity, one
\* the balance does not cover, a cancel by another account or of a missing
\* order, a fee out of range or by another account has no effect, and the
\* commands after it are applied.
C19_InvalidSkipped ==
  /\ inBlock => State = WithoutInvalid(pre, Ctx, cmds)
  /\ (~inBlock /\ chain # <<>>) =>
       State = WithoutInvalid(Last(chain).pre,
                              [height |-> Len(chain),
                               time |-> Last(chain).time],
                              Last(chain).cmds)

\* A committed block whose first command was invalid and whose last one
\* placed an order, which is open.
C19_Witness ==
  /\ ~inBlock /\ chain # <<>>
  /\ \E j \in 1..Len(chain) :
       /\ Len(chain[j].cmds) >= 2
       /\ ~IsValid(chain[j].pre, chain[j].cmds[1])
       /\ Last(chain[j].cmds).type = "place"
       /\ \E k \in 1..Len(chain[j].undo) : chain[j].undo[k].op = "insert"
  /\ Open # {}

\* TRUE iff the step applies a transfer command.
TransferStep == CommandStep /\ Last(cmds').type = "transfer"

\* C20: a transfer of n > 0 units that the sender has available takes n
\* from the sender's available inventory of the item in the building and
\* adds n to the recipient's, which may have been empty; coin, reserved
\* amounts, books, ids, fees and trades are unchanged.
C20_TransferMovesItems ==
  [][TransferStep =>
       LET c == Last(cmds')
           from == <<c.b, c.a, c.i>>
           to == <<c.b, c.to, c.i>>
       IN (c.n > 0 /\ inv[from].available >= c.n) =>
            /\ inv' = [inv EXCEPT ![from].available = @ - c.n,
                                  ![to].available = @ + c.n]
            /\ coin' = coin /\ book' = book /\ trades' = trades
            /\ nextId' = nextId /\ dexfee' = dexfee]_vars

\* 5 bar went to the account that had none, while an ask of the sender is
\* open and reserves a unit of foo.
C20_Witness ==
  /\ inBlock /\ cmds # <<>>
  /\ Last(cmds).type = "transfer" /\ Last(cmds).n = 5
  /\ inv[<<Checkmark, "gifted", "bar">>] = [available |-> 5, reserved |-> 0]
  /\ inv[<<Checkmark, "seller", "bar">>] = [available |-> 15, reserved |-> 0]
  /\ inv[<<Checkmark, "seller", "foo">>].reserved = 1

\* ------------------------------------------------------------------------
\* Properties of the run of dex.py (DexSpec).

\* The commands applied so far, oldest first.
RECURSIVE SentIn(_)
SentIn(ch) == IF ch = <<>> THEN <<>> ELSE Head(ch).cmds \o SentIn(Tail(ch))

Sent == SentIn(chain) \o cmds

\* The commands applied so far that are orders or cancels.
SentOnBook == SelectSeq(Sent, LAMBDA c : c.type # "transfer")

\* An open order on foo in the building of dex.py.
Resting(n, a, side, p, q) ==
  [id |-> Checkmark + n, building |-> Checkmark, item |-> "foo",
   account |-> a, side |-> side, price |-> p, quantity |-> q]

FooBook == book[<<Checkmark, "foo">>]

\* C21: after the asks of 2 at 100 and 2 at 50 and the bids of 1 at 10 and
\* 1 at 20 on the empty book there is no trade, the asks are [50 x 2,
\* 100 x 2] and the bids [20 x 1, 10 x 1] with ids in the order of creation,
\* the buyer has 970 coin available and 30 reserved, the seller 6 foo
\* available and 4 reserved; after the cancels of the bid at 20 and of the
\* ask at 50 the bids are [10 x 1], the asks [100 x 2], the buyer has
\* (990, 10) and the seller (8, 2).
C21_PlaceAndCancelScenario ==
  /\ SentOnBook = SubSeq(Script, 2, 5) =>
       /\ trades = <<>>
       /\ FooBook = [bids |-> <<Resting(4, "buyer", "bid", 20, 1),
                                Resting(3, "buyer", "bid", 10, 1)>>,
                     asks |-> <<Resting(2, "seller", "ask", 50, 2),
                                Resting(1, "seller", "ask", 100, 2)>>]
       /\ coin["buyer"]
            = [available |-> 970, reserved |-> 30, total |-> 1000]
       /\ inv[<<Checkmark, "seller", "foo">>]
            = [available |-> 6, reserved |-> 4]
  /\ SentOnBook = SubSeq(Script, 2, 7) =>
       /\ trades = <<>>
       /\ FooBook = [bids |-> <<Resting(3, "buyer", "bid", 10, 1)>>,
                     asks |-> <<Resting(1, "seller", "ask", 100, 2)>>]
       /\ coin["buyer"]
            = [available |-> 990, reserved |-> 10, total |-> 1000]
       /\ inv[<<Checkmark, "seller", "foo">>]
            = [available |-> 8, reserved |-> 2]
  /\ Sent = SubSeq(Script, 1, 7) => State = AfterCancels

\* The blocks of dex.py up to its cancels are committed: the transfer, the
\* two asks, the two bids, the two cancels.
C21_Witness ==
  /\ ~inBlock /\ Len(chain) = 4
  /\ chain[1].cmds = SubSeq(Script, 1, 1)
  /\ chain[2].cmds = SubSeq(Script, 2, 3)
  /\ chain[3].cmds = SubSeq(Script, 4, 5)
  /\ chain[4].cmds = SubSeq(Script, 6, 7)
  /\ Len(FooBook.bids) = 1 /\ Len(FooBook.asks) = 1

\* The records of the trade history without their blocks.
Deals == [j \in 1..Len(trades) |-> Deal(trades[j])]

FooDeal(p, q) ==
  [price |-> p, quantity |-> q, cost |-> p * q, seller |-> "seller",
   buyer |-> "buyer", buildingid |-> Checkmark, item |-> "foo"]

\* C22: on the book of bids [10 x 1] and asks [100 x 2] the ask of 2 at 0
\* trades 1 unit at 10 and rests with 1 unit at 0; the bid of 4 at 200 then
\* trades 1 unit at 0 and 2 units at 100 and rests with 1 unit at 200: the
\* bids are [200 x 1], there is no ask, the buyer has 4 foo, the seller 6
\* with none reserved, and the history is these three trades in this
\* order.
C22_PartialFillScenario ==
  /\ SentOnBook = SubSeq(Script, 2, 8) =>
       /\ Deals = <<FooDeal(10, 1)>>
       /\ FooBook = [bids |-> <<>>,
                     asks |-> <<Resting(5, "seller", "ask", 0, 1),
                                Resting(1, "seller", "ask", 100, 2)>>]
  /\ SentOnBook = SubSeq(Script, 2, 9) =>
       /\ Deals = <<FooDeal(10, 1), FooDeal(0, 1), FooDeal(100, 2)>>
       /\ FooBook = [bids |-> <<Resting(6, "buyer", "bid", 200, 1)>>,
                     asks |-> <<>>]
       /\ inv[<<Checkmark, "buyer", "foo">>]
            = [available |-> 4, reserved |-> 0]
       /\ inv[<<Checkmark, "seller", "foo">>]
            = [available |-> 6, reserved |-> 0]

\* All blocks of dex.py are committed, the ask at 0 and the bid at 200 in
\* a block each.
C22_Witness ==
  /\ ~inBlock /\ Len(chain) = 6
  /\ Sent = Script
  /\ chain[5].cmds = SubSeq(Script, 8, 8)
  /\ chain[6].cmds = SubSeq(Script, 9, 9)
  /\ Len(trades) = 3
  /\ trades[1].height = 5 /\ trades[2].height = 6 /\ trades[3].height = 6

\* TRUE iff s is an initial part of t.
IsPrefix(s, t) == Len(s) <= Len(t) /\ SubSeq(t, 1, Len(s)) = s

\* TRUE iff the step detaches a block.
RollbackStep == Len(chain') < Len(chain)

\* TRUE iff the prices of the records s are in the order in which an
\* incoming order of the given side crosses the other side.
RECURSIVE InCrossingOrder(_, _)
InCrossingOrder(side, s) ==
  \/ Len(s) < 2
  \/ /\ IF side = "bid" THEN s[1].price <= s[2].price
                         ELSE s[1].price >= s[2].price
     /\ InCrossingOrder(side, Tail(s))

\* C23: a step of forward processing leaves the records of the trade
\* history in place and adds records only at its end, with the height of
\* the block in progress, so that the history is ordered by height; the
\* records of one command follow those of the commands before it and are
\* in the order of its crossings.  Only a rollback removes records, and it
\* removes them from the end.
C23_HistoryAppendOnly ==
  [][/\ ~RollbackStep =>
          /\ IsPrefix(trades, trades')
          /\ \A j \in 1..Len(NewTrades) :
               NewTrades[j].height = Len(chain) + 1
     /\ RollbackStep => IsPrefix(trades', trades)
     /\ \A j \in 1..(Len(trades') - 1) :
          trades'[j].height <= trades'[j + 1].height
     /\ TradingStep => InCrossingOrder(Last(cmds').side, NewTrades)
    ]_vars

\* A command traded in the first block, and a bid of the second block
\* traded twice at different prices.
C23_Witness ==
  /\ Len(trades) = 3
  /\ trades[1].height = 1
  /\ trades[2].height = 2 /\ trades[3].height = 2
  /\ trades[2].price < trades[3].price

\* C24: every trade record has cost = price * quantity and quantity >= 1;
\* a record appended by a place command has the height of the block of the
\* command and the building and item of the book in which it matched; its
\* seller is the account of the ask and its buyer the account of the bid,
\* whichever of the two is the incoming order.
C24_TradeRecord ==
  [][/\ \A j \in 1..Len(trades') :
          /\ trades'[j].cost = trades'[j].price * trades'[j].quantity
          /\ trades'[j].quantity >= 1
     /\ TradingStep =>
          LET c == Last(cmds')
              opp == Side(St, c.b, c.i, Opp(c.side))
          IN /\ c.type = "place"
             /\ Len(NewTrades) <= Len(opp)
             /\ \A j \in 1..Len(NewTrades) :
                  LET t == NewTrades[j]
                  IN /\ t.height = Len(chain) + 1
                     /\ t.buildingid = c.b /\ t.item = c.i
                     /\ opp[j].building = c.b /\ opp[j].item = c.i
                     /\ IF c.side = "bid"
                          THEN t.buyer = c.a /\ t.seller = opp[j].account
                          ELSE t.seller = c.a /\ t.buyer = opp[j].account
    ]_vars

\* The history has a trade of an incoming ask and a trade of an incoming
\* bid: the seller of a record placed the command of one block and the
\* buyer of a record the command of another.
C24_Witness ==
  /\ ~inBlock /\ Len(trades) >= 2
  /\ \E j, k \in 1..Len(trades) :
       /\ trades[j].height # trades[k].height
       /\ Last(chain[trades[j].height].cmds).type = "place"
       /\ Last(chain[trades[j].height].cmds).side = "ask"
       /\ Last(chain[trades[k].height].cmds).type = "place"
       /\ Last(chain[trades[k].height].cmds).side = "bid"
       /\ Last(chain[trades[j].height].cmds).a = trades[j].seller
       /\ Last(chain[trades[k].height].cmds).a = trades[k].buyer

\* The state S with an empty undo frame.
Fresh(S) ==
  [coin |-> S.coin, inv |-> S.inv, book |-> S.book, nextId |-> S.nextId,
   trades |-> S.trades, dexfee |-> S.dexfee, log |-> <<>>]

\* The blocks ch, of which the first has height h, applied to a copy S of
\* a state, block by block and command by command.
RECURSIVE Replayed(_, _, _)
Replayed(S, h, ch) ==
  IF ch = <<>> THEN S
  ELSE Replayed(Fresh(ApplyAll(S, [height |-> h, time |-> Head(ch).time],
                               Head(ch).cmds)),
                h + 1, Tail(ch))

\* The state in which the first block of the active chain started.
Start == IF chain # <<>> THEN chain[1].pre
         ELSE IF inBlock THEN pre ELSE State

\* C25: the state reached is a function of the starting state and of the
\* ordered commands of the active chain: the commands applied to a copy of
\* the starting state give the same ledger, books, order ids, fees and
\* trade history, whatever blocks were detached, replaced or applied again
\* on the way.
C25_Determinism ==
  State = View(ApplyAll(Replayed(Fresh(Start), 1, chain), Ctx, cmds))

\* A block that traded was detached and applied again, and its trade has
\* the height and the time of the block.
C25_Witness ==
  /\ ~inBlock /\ reorgDone = "replay"
  /\ trades # <<>>
  /\ Last(trades).height = Len(chain)
  /\ Last(trades).timestamp = Last(chain).time
  /\ Len(Last(chain).cmds) = 2

\* C26: a read query returns the state of a block boundary.  While a block
\* is applied the answer does not change; when the block is committed the
\* answer becomes the state with all commands of the block applied; when a
\* block is rolled back it becomes the state in which the block started.
C26_ReadsAtBlockBoundary ==
  [][/\ inBlock' => Snapshot' = Snapshot
     /\ (inBlock /\ ~inBlock') =>
          Snapshot' = View(ApplyAll(Fresh(Snapshot), Ctx, cmds))
     /\ RollbackStep => Snapshot' = Last(chain).pre
    ]_vars

\* A block after the first is in progress, a placement of it has traded
\* twice, and the query does not show its trades.
C26_Witness ==
  /\ inBlock /\ chain # <<>>
  /\ Len(trades) >= Len(Snapshot.trades) + 2
  /\ Snapshot.book # book

\* TRUE iff the step detaches a block or applies a detached block again.
ReorgStep == RollbackStep \/ stale' # stale

\* C27: there is one writer.  A rollback or a redo happens only between
\* blocks; while a block is applied it stays the block in progress and no
\* other block is attached or detached; a block is attached alone, either
\* the block in progress with its commands or the oldest detached block;
\* and the undo frame of an attached block holds the inverse operations of
\* its own commands and of nothing else.
C27_SingleWriter ==
  [][/\ ReorgStep => ~inBlock /\ ~inBlock'
     /\ (inBlock /\ inBlock') =>
          /\ pre' = pre /\ chain' = chain
          /\ Len(cmds') = Len(cmds) + 1
          /\ SubSeq(cmds', 1, Len(cmds)) = cmds
     /\ Len(chain') > Len(chain) =>
          LET blk == Last(chain')
          IN /\ Len(chain') = Len(chain) + 1
             /\ SubSeq(chain', 1, Len(chain)) = chain
             /\ ~inBlock'
             /\ IF inBlock THEN blk.cmds = cmds /\ blk.pre = pre
                           ELSE stale # <<>> /\ blk.cmds = Head(stale).cmds
             /\ blk.undo =
                  ApplyAll(Fresh(blk.pre),
                           [height |-> Len(chain'), time |-> blk.time],
                           blk.cmds).log
    ]_vars

\* After a rollback a block of an alternate branch is in progress and has
\* changed the state.
C27_Witness ==
  /\ inBlock /\ stale # <<>>
  /\ cmds # <<>> /\ log # <<>>
  /\ State # pre

\* TRUE iff the step applies a configuration move.
ConfigStep == CommandStep /\ Last(cmds').type = "fee"

\* C30: the fee of every building is at least 0 and below 100 percent in
\* every reachable state; a configuration with a fee outside that range or
\* below 0, and a configuration sent by an account that does not own the
\* building, which every configuration of a building without an owner is,
\* changes nothing.
C30_FeeInRange ==
  [][/\ \A b \in Buildings :
          /\ 0 <= dexfee[b] /\ dexfee[b] < BpsDenominator
          /\ 0 <= dexfee'[b] /\ dexfee'[b] < BpsDenominator
     /\ ConfigStep =>
          LET c == Last(cmds')
          IN (\/ c.fee < 0
              \/ c.fee >= BpsDenominator
              \/ owner[c.b] = NoOwner
              \/ c.a # owner[c.b])
               => State' = State /\ log' = log
    ]_vars

\* After a block with a fee of the owner that was taken, a block holds a
\* fee of 100 percent by the owner and a fee sent for the building without
\* an owner.
C30_Witness ==
  /\ inBlock /\ Len(chain) = 1 /\ Len(cmds) = 2
  /\ chain[1].cmds[1].type = "fee" /\ chain[1].cmds[1].fee = LowFee
  /\ cmds[1].type = "fee" /\ cmds[1].fee = BpsDenominator
  /\ cmds[2].type = "fee" /\ cmds[2].b = Ancient
  /\ dexfee[Checkmark] = LowFee /\ dexfee[Ancient] = 0

\* The configuration moves confirmed at a height of at most h that
\* schedule an update, in the order of their confirmation.
RECURSIVE ConfirmedBy(_, _)
ConfirmedBy(h, cs) ==
  IF cs = <<>> THEN <<>>
  ELSE (IF Head(cs).height <= h /\ Schedules(Head(cs).move)
          THEN <<Head(cs)>> ELSE <<>>) \o ConfirmedBy(h, Tail(cs))

\* The last value that the moves cs give the field f of building b, or
\* Unset when none names it.
RECURSIVE LastValue(_, _, _)
LastValue(cs, b, f) ==
  IF cs = <<>> THEN Unset
  ELSE LET m == cs[Len(cs)].move
       IN IF m.b = b /\ m[f] # Unset THEN m[f]
          ELSE LastValue(SubSeq(cs, 1, Len(cs) - 1), b, f)

\* C31: a configuration move of the owner confirmed at height h is in
\* force from height h + 10 and not before.  At every height each field of
\* a configuration has the value of the last move, in the order of
\* confirmation, that names the field and was confirmed 10 blocks or more
\* ago, so that an update keeps the fields it does not name and the later
\* of two updates of one height wins; the updates that wait are those of
\* the moves confirmed less than 10 blocks ago, in the order of
\* confirmation, each with the height of its confirmation plus 10.
C31_ScheduledConfig ==
  LET old == ConfirmedBy(tip - ConfigDelay, confirmed)
      all == ConfirmedBy(tip, confirmed)
      young == SubSeq(all, Len(old) + 1, Len(all))
  IN /\ \A b \in Buildings :
          /\ config[b].dexfee = LastValue(old, b, "dexfee")
          /\ config[b].servicefee = LastValue(old, b, "servicefee")
     /\ sched = [j \in 1..Len(young) |->
                   Scheduled(young[j].height, young[j].move)]

\* Both fees were set by one update, and a later update of the DEX fee
\* alone is in force one block after it while the service fee is kept.
C31_Witness ==
  /\ Len(confirmed) = 2
  /\ confirmed[1].move.servicefee = 1 /\ confirmed[1].move.dexfee = LowFee
  /\ confirmed[2].move.dexfee = 2 * LowFee
  /\ confirmed[2].height = confirmed[1].height + 1
  /\ tip = confirmed[2].height + ConfigDelay
  /\ config[Checkmark] = [dexfee |-> 2 * LowFee, servicefee |-> 1]
  /\ sched = <<>>

\* The open orders after the step.
OpenAfter ==
  UNION {SeqToSet(book'[k].bids) \cup SeqToSet(book'[k].asks) :
         k \in BookKeys}

\* C32: a valid incoming order whose best opposing order crosses and
\* belongs to the same account trades with it like with any other: the
\* first trade of the step has this account as seller and as buyer, the
\* price of the resting order and the smaller of the two quantities; the
\* resting order is left with its quantity less the fill, or removed when
\* nothing is left; what is inserted of the incoming order is at most its
\* quantity less the fill; and balances and reservations are consistent
\* afterwards.
C32_SelfMatch ==
  [][(PlaceStep /\ Last(cmds').n > 0 /\ Affordable(Last(cmds'))) =>
       LET c == Last(cmds')
           opp == Side(St, c.b, c.i, Opp(c.side))
       IN (opp # <<>> /\ Crosses(c.side, c.p, opp[1])
           /\ opp[1].account = c.a) =>
            LET M == opp[1]
                f == Min(c.n, M.quantity)
            IN /\ NewTrades # <<>>
               /\ NewTrades[1].seller = c.a /\ NewTrades[1].buyer = c.a
               /\ NewTrades[1].price = M.price
               /\ NewTrades[1].quantity = f
               /\ NewTrades[1].cost = M.price * f
               /\ IF f = M.quantity
                    THEN \A o \in OpenAfter : o.id # M.id
                    ELSE [M EXCEPT !.quantity = @ - f] \in OpenAfter
               /\ \A o \in Created : o.quantity <= c.n - f
               /\ C1_BalanceInvariant'
               /\ C4_ReservedMatchesOrders'
    ]_vars

\* The account that bought a unit sold it to its own open bid at 15.
C32_Witness ==
  /\ trades # <<>>
  /\ Last(trades).seller = Last(trades).buyer
  /\ Last(trades).price = 15 /\ Last(trades).quantity = 1
  /\ inv[<<Checkmark, Last(trades).buyer, "foo">>].available = 1

\* TRUE iff the step filled f units of the resting order o: a trade of the
\* step has the account of o on the side of o, the price of o and f units,
\* in the book of o.
FilledBy(o, f) ==
  /\ TradingStep
  /\ Last(cmds').type = "place" /\ Last(cmds').side = Opp(o.side)
  /\ \E j \in 1..Len(NewTrades) :
       LET t == NewTrades[j]
       IN /\ t.price = o.price /\ t.quantity = f
          /\ t.buildingid = o.building /\ t.item = o.item
          /\ (IF o.side = "ask" THEN t.seller ELSE t.buyer) = o.account

\* C33: in forward processing an order that rests in a book stays as it is
\* or makes one of three transitions.  It stays in its book with its id,
\* account, side, building, item and price and a lower quantity, and the
\* difference was filled; or it is gone because all of it was filled; or it
\* is gone because its account cancelled it.  No two open orders have the
\* same id.
C33_OrderTransitions ==
  [][~RollbackStep =>
       /\ \A o \in Open :
            LET same == {x \in OpenAfter : x.id = o.id}
            IN \/ same = {o}
               \/ /\ same # {} /\ same # {o}
                  /\ \E x \in same :
                       /\ same = {x}
                       /\ x = [o EXCEPT !.quantity = x.quantity]
                       /\ x.quantity >= 1 /\ x.quantity < o.quantity
                       /\ FilledBy(o, o.quantity - x.quantity)
                       /\ x \in SeqToSet(Side([book |-> book'], o.building,
                                              o.item, o.side))
               \/ /\ same = {}
                  /\ \/ FilledBy(o, o.quantity)
                     \/ /\ CancelStep
                        /\ Last(cmds').id = o.id /\ Last(cmds').a = o.account
                        /\ trades' = trades
       /\ \A x, y \in OpenAfter : x.id = y.id => x = y
    ]_vars

\* A bid of 7 rests with 6 units after a fill of 1 unit, under its id and at
\* its price.
C33_Witness ==
  /\ inBlock /\ Len(trades) = 1 /\ trades[1].quantity = 1
  /\ \E j \in 1..Len(FooBook.bids) :
       /\ FooBook.bids[j].quantity = 6 /\ FooBook.bids[j].price = 100
       /\ FooBook.bids[j].id = Checkmark + 1
  /\ cmds # <<>> /\ Last(cmds).type = "place" /\ Last(cmds).side = "ask"

\* C34: every order that rests in a book has a quantity of at least 1: an
\* order that a fill leaves with nothing is removed by the command that
\* filled it, and an incoming order of which nothing is left, or that
\* asked for nothing, is not inserted.
C34_RestingQuantityPositive == \A o \in Open : o.quantity >= 1

\* A bid of 2 was filled by two asks of 1: both asks and the bid are gone.
C34_Witness ==
  /\ inBlock /\ cmds # <<>> /\ Len(trades) = 2
  /\ Last(cmds).type = "place" /\ Last(cmds).side = "bid"
  /\ Last(cmds).n = 2
  /\ Open = {}

\* C35: between commands no book is crossed: in every book every bid has a
\* price strictly below the price of every ask.
C35_BookNotCrossed ==
  \A k \in BookKeys :
    \A j \in 1..Len(book[k].bids), m \in 1..Len(book[k].asks) :
      book[k].bids[j].price < book[k].asks[m].price

\* An ask at 0 was filled by two of three bids at 10: the third bid and an
\* ask at 100 rest in the book after the trades.
C35_Witness ==
  /\ inBlock /\ cmds # <<>> /\ Len(trades) = 2
  /\ Last(cmds).type = "place" /\ Last(cmds).side = "ask"
  /\ Len(FooBook.bids) = 1 /\ Len(FooBook.asks) = 1
  /\ FooBook.bids[1].price = 10 /\ FooBook.asks[1].price = 100

\* The units of item i that the accounts as hold in building b, available
\* and reserved.
RECURSIVE ItemsOf(_, _, _)
ItemsOf(as, b, i) ==
  IF as = {} THEN 0
  ELSE LET a == CHOOSE x \in as : TRUE
       IN inv[<<b, a, i>>].available + inv[<<b, a, i>>].reserved
          + ItemsOf(as \ {a}, b, i)

\* C36: no command changes the number of units of an item in a building:
\* in every reachable state the units of all accounts, available and
\* reserved, are the units that were dropped into the building.
C36_ItemsConserved ==
  \A b \in Buildings, i \in Items :
    ItemsOf(Accounts, b, i)
      = InitInv[<<b, "seller", i>>].available

\* A unit was sold and units were transferred.
C36_Witness ==
  /\ trades # <<>>
  /\ inv[<<Checkmark, "buyer", "foo">>].available > 0
  /\ inv[<<Checkmark, "seller", "foo">>].available < InitialFoo
  /\ inv[<<Checkmark, "gifted", "bar">>].available = 5

\* The coin that the accounts as hold in the balances c, available and
\* reserved.
RECURSIVE CoinOf(_, _)
CoinOf(c, as) ==
  IF as = {} THEN 0
  ELSE LET a == CHOOSE x \in as : TRUE
       IN c[a].available + c[a].reserved + CoinOf(c, as \ {a})

\* C37: no command creates coin.  A command that does not trade leaves the
\* coin of all accounts together as it is, and a command that trades
\* lowers it by the part of the fee of each fill that no account receives,
\* which is the fee of the fill once more (dex.py: 1000 - 21 after fills of
\* 210 at 10 percent).
C37_NoCoinCreated ==
  [][CommandStep =>
       LET c == Last(cmds')
           burnt == [j \in 1..Len(NewTrades) |->
                       Fee(NewTrades[j].cost, dexfee[NewTrades[j].buildingid])]
       IN /\ CoinOf(coin', Accounts) = CoinOf(coin, Accounts) - SumSeq(burnt)
          /\ CoinOf(coin', Accounts) <= CoinOf(coin, Accounts)
          /\ c.type # "place" => NewTrades = <<>>
          /\ \A a \in Accounts :
               coin'[a].available + coin'[a].reserved = coin'[a].total
    ]_vars

\* A fill of cost 100 at a fee of 10 percent: the accounts hold 10 less.
C37_Witness ==
  /\ Len(trades) = 1 /\ trades[1].cost = 100
  /\ dexfee[Checkmark] = 1000
  /\ CoinOf(coin, Accounts) = InitialCoins - 10
  /\ coin["building"].available = 10

\* C38: one place command makes at most as many fills as there were orders
\* on the opposing side when it started, one per opposing order from the
\* best on, and each fill either takes all of the resting order, which is
\* removed, or is the last fill and takes what was left of the incoming
\* order.
C38_FillsBounded ==
  [][PlaceStep =>
       LET c == Last(cmds')
           opp == Side(St, c.b, c.i, Opp(c.side))
           k == Len(NewTrades)
           qs == [j \in 1..k |-> NewTrades[j].quantity]
       IN /\ k <= Len(opp)
          /\ \A j \in 1..k :
               \/ /\ qs[j] = opp[j].quantity
                  /\ \A o \in OpenAfter : o.id # opp[j].id
               \/ /\ j = k
                  /\ SumSeq(qs) = c.n
                  /\ Created = {}
    ]_vars

\* The bid of 4 at 200 made three fills: it took all of the asks at 0 and
\* at 50 and 1 of the 2 units of the ask at 100.
C38_Witness ==
  /\ inBlock /\ Len(trades) = 4
  /\ trades[2].price = 0 /\ trades[2].quantity = 1
  /\ trades[3].price = 50 /\ trades[3].quantity = 2
  /\ trades[4].price = 100 /\ trades[4].quantity = 1
  /\ FooBook.asks = <<Resting(1, "seller", "ask", 100, 1)>>
  /\ FooBook.bids = <<>>

====
